---- MODULE Spec2Model ----
(***************************************************************************)
(* Model of the Todo API (src/src/routes/todos.js): the /tasks router, the *)
(* validation middleware in front of it and the PostgreSQL table behind    *)
(* it.  A handler builds SQL statements (a token text plus a parameter     *)
(* list); the database part of the model executes the statement it is      *)
(* handed, so that a wrongly built statement gives a wrong result.         *)
(***************************************************************************)
EXTENDS Integers, Sequences, FiniteSets, TLC

(***************************************************************************)
(* Bounds of the model.                                                    *)
(***************************************************************************)
\* largest number of rows the table holds at once
MaxTasks == 2
\* the clock NOW() runs over 0..MaxTime
MaxTime == 1
\* the SERIAL sequence of tasks.id hands out 1..MaxId
MaxId == 3
\* the clients send at most this many updates that change a row
MaxUpdates == 1
\* the number of clients that have a request in progress at once
MaxClients == 2

(***************************************************************************)
(* Values.  A JavaScript value of a request and a value bound to a SQL     *)
(* parameter share one record shape: ty is the type tag, s the characters  *)
(* of a string (a sequence of one-character strings), b a boolean, n an    *)
(* integer.                                                                *)
(***************************************************************************)
Undef == [ty |-> "undefined", s |-> <<>>, b |-> FALSE, n |-> 0]

Null == [ty |-> "null", s |-> <<>>, b |-> FALSE, n |-> 0]

NaN == [ty |-> "NaN", s |-> <<>>, b |-> FALSE, n |-> 0]

Infinity == [ty |-> "Infinity", s |-> <<>>, b |-> FALSE, n |-> 0]

Str(s) == [ty |-> "string", s |-> s, b |-> FALSE, n |-> 0]

Bool(b) == [ty |-> "boolean", s |-> <<>>, b |-> b, n |-> 0]

Num(n) == [ty |-> "number", s |-> <<>>, b |-> FALSE, n |-> n]

\* JavaScript truthiness, as tested by `if (priority)` and by `x || y`
Truthy(v) ==
  CASE v.ty = "string" -> v.s # <<>>
    [] v.ty = "boolean" -> v.b
    [] v.ty = "number" -> v.n # 0
    [] v.ty = "Infinity" -> TRUE
    [] OTHER -> FALSE

\* the JavaScript expression `a || b`
Or(a, b) == IF Truthy(a) THEN a ELSE b

(***************************************************************************)
(* Strings.                                                                *)
(***************************************************************************)
Digits == <<"0", "1", "2", "3", "4", "5", "6", "7", "8", "9">>

UpperCase == <<"A", "B", "C", "D", "E", "F", "G", "H", "I", "J", "K", "L", "M",
               "N", "O", "P", "Q", "R", "S", "T", "U", "V", "W", "X", "Y", "Z">>

LowerCase == <<"a", "b", "c", "d", "e", "f", "g", "h", "i", "j", "k", "l", "m",
               "n", "o", "p", "q", "r", "s", "t", "u", "v", "w", "x", "y", "z">>

IsSpace(c) == c = " "

IsDigit(c) == \E i \in 1..10 : Digits[i] = c

DigitVal(c) == (CHOOSE i \in 1..10 : Digits[i] = c) - 1

LowerChar(c) ==
  IF \E i \in 1..26 : UpperCase[i] = c
  THEN LowerCase[CHOOSE i \in 1..26 : UpperCase[i] = c]
  ELSE c

Lower(s) == [i \in 1..Len(s) |-> LowerChar(s[i])]

\* s without its first n characters
Drop(s, n) == [i \in 1..(Len(s) - n) |-> s[i + n]]

\* the first n characters of s
Take(s, n) == [i \in 1..n |-> s[i]]

\* number of leading white-space characters of s
LeadSpaces(s) ==
  IF \A i \in 1..Len(s) : IsSpace(s[i])
  THEN Len(s)
  ELSE (CHOOSE i \in 1..Len(s) : ~IsSpace(s[i]) /\ \A j \in 1..(i - 1) : IsSpace(s[j])) - 1

\* number of trailing white-space characters of s
TrailSpaces(s) ==
  IF \A i \in 1..Len(s) : IsSpace(s[i])
  THEN Len(s)
  ELSE Len(s) - (CHOOSE i \in 1..Len(s) : ~IsSpace(s[i]) /\ \A j \in (i + 1)..Len(s) : IsSpace(s[j]))

\* the sanitizer trim() of express-validator: white space off both ends
Trim(s) ==
  IF \A i \in 1..Len(s) : IsSpace(s[i])
  THEN <<>>
  ELSE Take(Drop(s, LeadSpaces(s)), Len(s) - LeadSpaces(s) - TrailSpaces(s))

\* length of the longest prefix of s made of decimal digits
DigitPrefix(s) ==
  IF \A i \in 1..Len(s) : IsDigit(s[i])
  THEN Len(s)
  ELSE (CHOOSE i \in 1..Len(s) : ~IsDigit(s[i]) /\ \A j \in 1..(i - 1) : IsDigit(s[j])) - 1

\* the largest value of the column type integer (init.sql: id SERIAL)
MaxInt4 == 2147483647

RECURSIVE DecimalValue(_)
\* the number written by the decimal digits s; the integers of the model
\* end at MaxInt4, a greater number is cut to it
DecimalValue(s) ==
  IF s = <<>> THEN 0
  ELSE LET hi == DecimalValue(Take(s, Len(s) - 1))
           lo == DigitVal(s[Len(s)])
       IN IF hi > 214748364 \/ (hi = 214748364 /\ lo > 7) THEN MaxInt4 ELSE 10 * hi + lo

RECURSIVE BeyondInt4(_)
\* do the decimal digits s write a number greater than MaxInt4
BeyondInt4(s) ==
  IF s = <<>> THEN FALSE
  ELSE LET hi == DecimalValue(Take(s, Len(s) - 1))
       IN \/ BeyondInt4(Take(s, Len(s) - 1))
          \/ hi > 214748364
          \/ hi = 214748364 /\ DigitVal(s[Len(s)]) > 7

HasSign(s) == s # <<>> /\ s[1] \in {"-", "+"}

Unsigned(s) == IF HasSign(s) THEN Tail(s) ELSE s

Signed(s, n) == IF s # <<>> /\ s[1] = "-" THEN 0 - n ELSE n

\* parseInt(s, 10) of a string: leading white space, a sign, then the
\* longest run of digits; NaN when there is no digit
ParseIntStr(s) ==
  LET t == Drop(s, LeadSpaces(s))
      u == Unsigned(t)
      d == DigitPrefix(u)
  IN IF d = 0 THEN NaN ELSE Num(Signed(t, DecimalValue(Take(u, d))))

\* parseInt(v, 10): the argument is first converted to a string
parseInt(v) ==
  CASE v.ty = "string" -> ParseIntStr(v.s)
    [] v.ty = "number" -> v
    [] OTHER -> NaN

\* Number(s) of a string, the coercion applied by `-` and `*`: the whole
\* trimmed string must be a decimal integer; the empty string is 0
ToNumberStr(s) ==
  LET t == Trim(s)
      u == Unsigned(t)
  IN IF t = <<>> THEN Num(0)
     ELSE IF u # <<>> /\ DigitPrefix(u) = Len(u) THEN Num(Signed(t, DecimalValue(u)))
     ELSE NaN

ToNumber(v) ==
  CASE v.ty = "string" -> ToNumberStr(v.s)
    [] v.ty = "number" -> v
    [] v.ty = "boolean" -> Num(IF v.b THEN 1 ELSE 0)
    [] v.ty = "null" -> Num(0)
    [] OTHER -> NaN

\* the JavaScript expression `a - b`
Minus(a, b) ==
  LET x == ToNumber(a)
      y == ToNumber(b)
  IN IF x.ty = "number" /\ y.ty = "number" THEN Num(x.n - y.n) ELSE NaN

\* the JavaScript expression `a * b`
Times(a, b) ==
  LET x == ToNumber(a)
      y == ToNumber(b)
  IN IF x.ty = "number" /\ y.ty = "number" THEN Num(x.n * y.n) ELSE NaN

\* Math.ceil(a / b) of two integers
CeilDiv(a, b) ==
  IF b = 0 THEN (IF a = 0 THEN NaN ELSE Infinity)
  ELSE IF (a >= 0) = (b > 0) THEN Num((a + (IF b > 0 THEN b ELSE 0 - b) - 1) \div (IF b > 0 THEN b ELSE 0 - b))
  ELSE Num(0 - ((IF a >= 0 THEN a ELSE 0 - a) \div (IF b > 0 THEN b ELSE 0 - b)))

\* JSON.stringify of a number: NaN and Infinity are written as null
JsonNumber(v) == IF v.ty = "number" THEN v ELSE Null

RECURSIVE LikeAt(_, _, _, _)
\* SQL LIKE: does s from position i on match pattern p from position j on;
\* % matches any run of characters, _ any one character, \ quotes the next
LikeAt(s, p, i, j) ==
  IF j > Len(p) THEN i > Len(s)
  ELSE IF p[j] = "%" THEN \E k \in i..(Len(s) + 1) : LikeAt(s, p, k, j + 1)
  ELSE IF p[j] = "\\" /\ j < Len(p)
       THEN i <= Len(s) /\ s[i] = p[j + 1] /\ LikeAt(s, p, i + 1, j + 2)
  ELSE i <= Len(s) /\ (p[j] = "_" \/ s[i] = p[j]) /\ LikeAt(s, p, i + 1, j + 1)

\* the PostgreSQL operator ILIKE on a column value; NULL ILIKE p is not true
ILike(v, p) == v.ty = "string" /\ LikeAt(Lower(v.s), Lower(p), 1, 1)

(***************************************************************************)
(* Requests.  A query string and a JSON body are records of values; a      *)
(* field the client did not send is Undef.                                 *)
(***************************************************************************)
Low == <<"l", "o", "w">>

Medium == <<"m", "e", "d", "i", "u", "m">>

High == <<"h", "i", "g", "h">>

NoQuery == [page |-> Undef, limit |-> Undef, priority |-> Undef, completed |-> Undef, search |-> Undef]

\* a body: the five fields the routes read and the key id, which no schema
\* and no route knows
NoBody ==
  [title |-> Undef, description |-> Undef, priority |-> Undef, dueDate |-> Undef, completed |-> Undef,
   id |-> Undef]

BodyFields == {"title", "description", "priority", "dueDate", "completed"}

\* String(v), applied by express-validator before sanitizers and validators
ToStr(v) ==
  CASE v.ty = "string" -> v.s
    [] v.ty = "boolean" -> (IF v.b THEN <<"t", "r", "u", "e">> ELSE <<"f", "a", "l", "s", "e">>)
    [] OTHER -> <<>>

\* a date check that accepts every text that is not empty
IsIsoDateAny(s) == Len(s) > 0

\* a date written YYYY-MM-DD with a month 01..12 and a day 01..31
IsIsoDate(s) ==
  /\ Len(s) = 10
  /\ s[5] = "-" /\ s[8] = "-"
  /\ \A i \in {1, 2, 3, 4, 6, 7, 9, 10} : IsDigit(s[i])
  /\ DecimalValue(<<s[6], s[7]>>) \in 1..12
  /\ DecimalValue(<<s[9], s[10]>>) \in 1..31

(***************************************************************************)
(* Joi schemas (todos.js 7-21).  A key's rule: its type, whether it is     *)
(* required, the length limits of a string, the allowed values.            *)
(***************************************************************************)
Rule(type, required, min, max, valid) ==
  [type |-> type, required |-> required, min |-> min, max |-> max, valid |-> valid]

\* the order in which Joi visits the keys of the two schemas
SchemaKeys == <<"title", "description", "priority", "dueDate", "completed">>

createTaskSchema ==
  [title |-> Rule("string", TRUE, 1, 255, {}),
   description |-> Rule("string", FALSE, 0, 1000, {}),
   priority |-> Rule("string", FALSE, 0, 0, {Low, Medium, High}),
   dueDate |-> Rule("date", FALSE, 0, 0, {}),
   completed |-> Rule("boolean", FALSE, 0, 0, {})]

updateTaskSchema ==
  [title |-> Rule("string", FALSE, 1, 255, {}),
   description |-> Rule("string", FALSE, 0, 1000, {}),
   priority |-> Rule("string", FALSE, 0, 0, {Low, Medium, High}),
   dueDate |-> Rule("date", FALSE, 0, 0, {}),
   completed |-> Rule("boolean", FALSE, 0, 0, {})]

\* does value v break rule r: Joi.string() refuses the empty string,
\* Joi.date().iso() wants an ISO date string, Joi.boolean() a boolean or
\* the strings true / false in any case
JoiFails(r, v) ==
  IF v.ty = "undefined" THEN r.required
  ELSE CASE r.type = "string" ->
              \/ v.ty # "string"
              \/ (IF r.valid # {} THEN v.s \notin r.valid
                  ELSE v.s = <<>> \/ Len(v.s) < r.min \/ Len(v.s) > r.max)
         [] r.type = "date" -> ~(v.ty = "string" /\ IsIsoDate(v.s))
         [] r.type = "boolean" ->
              ~(\/ v.ty = "boolean"
                \/ v.ty = "string" /\ Lower(v.s) \in {<<"t", "r", "u", "e">>, <<"f", "a", "l", "s", "e">>})
         [] OTHER -> TRUE

\* schema.validate(body).error.details: Joi stops at the first failing key;
\* a key the schema does not name is not allowed
JoiDetails(schema, b) ==
  IF \A i \in 1..Len(SchemaKeys) : ~JoiFails(schema[SchemaKeys[i]], b[SchemaKeys[i]])
  THEN IF b.id.ty # "undefined" THEN <<"id">> ELSE <<>>
  ELSE <<SchemaKeys[CHOOSE i \in 1..Len(SchemaKeys) :
                      /\ JoiFails(schema[SchemaKeys[i]], b[SchemaKeys[i]])
                      /\ \A j \in 1..(i - 1) : ~JoiFails(schema[SchemaKeys[j]], b[SchemaKeys[j]])]>>

(***************************************************************************)
(* express-validator chains (todos.js 105-107, 131-137, 161-168, 232-234,  *)
(* 259-262).  A sanitizer rewrites the field of the request; a validator   *)
(* adds its message to the result the handler reads with validationResult. *)
(***************************************************************************)
\* body('title').trim() of POST: the field becomes the trimmed String(value)
SanitizeCreate(b) == [b EXCEPT !.title = Str(Trim(ToStr(b.title)))]

\* body('title').optional().trim() of PUT: a missing title is left alone
SanitizeUpdate(b) ==
  IF b.title.ty = "undefined" THEN b ELSE [b EXCEPT !.title = Str(Trim(ToStr(b.title)))]

\* isBoolean() of validator.js
IsBooleanStr(s) == s \in {<<"t", "r", "u", "e">>, <<"f", "a", "l", "s", "e">>, <<"1">>, <<"0">>}

\* isInt({ min: 1 }) of validator.js: an optional sign and digits, value >= 1
IsIntMin1(s) ==
  /\ Unsigned(s) # <<>>
  /\ DigitPrefix(Unsigned(s)) = Len(Unsigned(s))
  /\ Signed(s, DecimalValue(Unsigned(s))) >= 1

\* the messages of the optional body fields shared by POST and PUT
OptionalFieldErrors(b) ==
  (IF b.description.ty # "undefined" /\ Len(ToStr(b.description)) > 1000
   THEN <<"Description must be less than 1000 characters">> ELSE <<>>)
  \o (IF b.priority.ty # "undefined" /\ ToStr(b.priority) \notin {Low, Medium, High}
      THEN <<"Priority must be low, medium, or high">> ELSE <<>>)
  \o (IF b.dueDate.ty # "undefined" /\ ~IsIsoDate(ToStr(b.dueDate))
      THEN <<"Due date must be a valid ISO 8601 date">> ELSE <<>>)
  \o (IF b.completed.ty # "undefined" /\ ~IsBooleanStr(ToStr(b.completed))
      THEN <<"Completed must be a boolean">> ELSE <<>>)

\* validationResult(req) of POST /tasks, on the sanitized body
CreateErrors(b) ==
  (IF Len(ToStr(b.title)) < 1 \/ Len(ToStr(b.title)) > 255
   THEN <<"Title is required and must be between 1-255 characters">> ELSE <<>>)
  \o OptionalFieldErrors(b)

\* validationResult(req) of the id parameter
IdErrors(id) ==
  IF IsIntMin1(ToStr(id)) THEN <<>> ELSE <<"Task ID must be a positive integer">>

\* validationResult(req) of PUT /tasks/:id, on the sanitized body
UpdateErrors(id, b) ==
  IdErrors(id)
  \o (IF b.title.ty # "undefined" /\ (Len(ToStr(b.title)) < 1 \/ Len(ToStr(b.title)) > 255)
      THEN <<"Title must be between 1-255 characters">> ELSE <<>>)
  \o OptionalFieldErrors(b)

\* validationResult(req) of PATCH /tasks/:id/complete
CompleteErrors(id, b) ==
  IdErrors(id)
  \o (IF ~IsBooleanStr(ToStr(b.completed))
      THEN <<"Completed status is required and must be a boolean">> ELSE <<>>)

(***************************************************************************)
(* SQL statements.  The text of a statement is a sequence of tokens: a     *)
(* literal piece of SQL or a placeholder $n.  Values reach the database    *)
(* through the parameter list only if the text holds placeholders for      *)
(* them.                                                                   *)
(***************************************************************************)
Lit(s) == [ph |-> FALSE, s |-> s, n |-> 0, v |-> Undef]

\* the placeholder $n
Ph(n) == [ph |-> TRUE, s |-> "$", n |-> n, v |-> Undef]

Stmt(text, params) == [text |-> text, params |-> params]

\* the state of a statement under construction: text, parameters, counter
Build(text, params, paramCount) == [text |-> text, params |-> params, paramCount |-> paramCount]

\* a priority filter written into the text: ` AND priority = '${priority}'`
QueryPriorityInline(q, st) ==
  IF Truthy(q.priority)
  THEN Build(st.text \o <<Lit(" AND priority = "), [ph |-> FALSE, s |-> "'${priority}'", n |-> 0, v |-> q.priority]>>,
             st.params, st.paramCount)
  ELSE st

\* todos.js 47-50: if (priority) { query += ` AND priority = $${++paramCount}`; ... }
QueryPriority(q, st) ==
  IF Truthy(q.priority)
  THEN Build(st.text \o <<Lit(" AND priority = "), Ph(st.paramCount + 1)>>,
             Append(st.params, q.priority), st.paramCount + 1)
  ELSE st

\* todos.js 52-55: if (completed !== undefined) { ...; queryParams.push(completed === 'true') }
QueryCompleted(q, st) ==
  IF q.completed.ty # "undefined"
  THEN Build(st.text \o <<Lit(" AND completed = "), Ph(st.paramCount + 1)>>,
             Append(st.params, Bool(q.completed = Str(<<"t", "r", "u", "e">>))), st.paramCount + 1)
  ELSE st

\* todos.js 57-60: the search pattern `%${search}%` is bound twice
QuerySearch(q, st) ==
  IF Truthy(q.search)
  THEN Build(st.text \o <<Lit(" AND (title ILIKE "), Ph(st.paramCount + 1),
                          Lit(" OR description ILIKE "), Ph(st.paramCount + 2), Lit(")")>>,
             st.params \o <<Str(<<"%">> \o ToStr(q.search) \o <<"%">>),
                            Str(<<"%">> \o ToStr(q.search) \o <<"%">>)>>,
             st.paramCount + 2)
  ELSE st

\* todos.js 40: page = 1 and limit = 10 unless the query string has them
DefaultPage == 1

DefaultLimit == 10

PageOf(q) == IF q.page.ty = "undefined" THEN Num(DefaultPage) ELSE q.page

LimitOf(q) == IF q.limit.ty = "undefined" THEN Num(DefaultLimit) ELSE q.limit

\* an offset that counts the requested page in: page * limit
offsetOfPage(q) == Times(PageOf(q), LimitOf(q))

\* todos.js 41: const offset = (page - 1) * limit
offset(q) == Times(Minus(PageOf(q), Num(1)), LimitOf(q))

\* todos.js 62-63: ORDER BY, LIMIT and OFFSET close the data query
QueryLimitOffset(q, st) ==
  Build(st.text \o <<Lit(" ORDER BY created_at DESC LIMIT "), Ph(st.paramCount + 1),
                     Lit(" OFFSET "), Ph(st.paramCount + 2)>>,
        st.params \o <<parseInt(LimitOf(q)), parseInt(offset(q))>>,
        st.paramCount + 2)

\* todos.js 43-63: the data query of GET /tasks
query(q) ==
  LET st == QueryLimitOffset(q, QuerySearch(q, QueryCompleted(q, QueryPriority(q,
              Build(<<Lit("SELECT * FROM tasks WHERE 1=1")>>, <<>>, 0)))))
  IN Stmt(st.text, st.params)

\* todos.js 72-75
CountPriority(q, st) ==
  IF Truthy(q.priority)
  THEN Build(st.text \o <<Lit(" AND priority = "), Ph(st.paramCount + 1)>>,
             Append(st.params, q.priority), st.paramCount + 1)
  ELSE st

\* todos.js 77-80
CountCompleted(q, st) ==
  IF q.completed.ty # "undefined"
  THEN Build(st.text \o <<Lit(" AND completed = "), Ph(st.paramCount + 1)>>,
             Append(st.params, Bool(q.completed = Str(<<"t", "r", "u", "e">>))), st.paramCount + 1)
  ELSE st

\* a count query that binds the search pattern once, to one placeholder
\* used twice
CountSearchOnce(q, st) ==
  IF Truthy(q.search)
  THEN Build(st.text \o <<Lit(" AND (title ILIKE "), Ph(st.paramCount + 1),
                          Lit(" OR description ILIKE "), Ph(st.paramCount + 1), Lit(")")>>,
             Append(st.params, Str(<<"%">> \o ToStr(q.search) \o <<"%">>)),
             st.paramCount + 1)
  ELSE st

\* todos.js 82-85
CountSearch(q, st) ==
  IF Truthy(q.search)
  THEN Build(st.text \o <<Lit(" AND (title ILIKE "), Ph(st.paramCount + 1),
                          Lit(" OR description ILIKE "), Ph(st.paramCount + 2), Lit(")")>>,
             st.params \o <<Str(<<"%">> \o ToStr(q.search) \o <<"%">>),
                            Str(<<"%">> \o ToStr(q.search) \o <<"%">>)>>,
             st.paramCount + 2)
  ELSE st

\* todos.js 68-85: the count query of GET /tasks
countQuery(q) ==
  LET st == CountSearch(q, CountCompleted(q, CountPriority(q,
              Build(<<Lit("SELECT COUNT(*) FROM tasks WHERE 1=1")>>, <<>>, 0))))
  IN Stmt(st.text, st.params)

\* a SELECT without its WHERE clause
SelectAll(id) == Stmt(<<Lit("SELECT * FROM tasks")>>, <<>>)

\* todos.js 118 and 182
SelectById(id) == Stmt(<<Lit("SELECT * FROM tasks"), Lit(" WHERE id = "), Ph(1)>>, <<id>>)

\* the five values of an INSERT whose default priority is 'low'
InsertParamsLow(b) ==
  <<b.title, Or(b.description, Null), Or(b.priority, Str(Low)), Or(b.dueDate, Null),
    Or(b.completed, Bool(FALSE))>>

\* todos.js 149-152: the five values of the INSERT; a missing or falsy
\* optional field is replaced by its default
InsertParams(b) ==
  <<b.title, Or(b.description, Null), Or(b.priority, Str(Medium)), Or(b.dueDate, Null),
    Or(b.completed, Bool(FALSE))>>

InsertStmt(b) ==
  Stmt(<<Lit("INSERT INTO tasks (title, description, priority, due_date, completed) VALUES ("),
         Ph(1), Lit(", "), Ph(2), Lit(", "), Ph(3), Lit(", "), Ph(4), Lit(", "), Ph(5),
         Lit(") RETURNING *")>>,
       InsertParams(b))

\* todos.js 192-211: one `column = $n` per field of the body that is not
\* undefined, in the order title, description, priority, dueDate, completed
UpdateColumns == <<"title", "description", "priority", "due_date", "completed">>

UpdateSources == <<"title", "description", "priority", "dueDate", "completed">>

RECURSIVE updateFields(_, _, _)
\* the state of the builder after the first k of the five tests
updateFields(b, k, st) ==
  IF k = 0 THEN st
  ELSE LET prev == updateFields(b, k - 1, st)
       IN IF b[UpdateSources[k]].ty # "undefined"
          THEN Build(prev.text
                       \o (IF prev.paramCount > 0 THEN <<Lit(", ")>> ELSE <<>>)
                       \o <<Lit(UpdateColumns[k]), Lit(" = "), Ph(prev.paramCount + 1)>>,
                     Append(prev.params, b[UpdateSources[k]]), prev.paramCount + 1)
          ELSE prev

\* an UPDATE without its WHERE clause
UpdateStmtAll(id, b) ==
  LET st == updateFields(b, 5, Build(<<Lit("UPDATE tasks SET ")>>, <<>>, 0))
  IN Stmt(st.text \o <<Lit(", "), Lit("updated_at = NOW()"), Lit(" RETURNING *")>>, st.params)

\* todos.js 217-223: the UPDATE statement of PUT /tasks/:id
UpdateStmt(id, b) ==
  LET st == updateFields(b, 5, Build(<<Lit("UPDATE tasks SET ")>>, <<>>, 0))
  IN Stmt(st.text \o <<Lit(", "), Lit("updated_at = NOW()"), Lit(" WHERE id = "),
                       Ph(st.paramCount + 1), Lit(" RETURNING *")>>,
          Append(st.params, id))

\* a DELETE without its WHERE clause
DeleteEvery(id) == Stmt(<<Lit("DELETE FROM tasks"), Lit(" RETURNING *")>>, <<>>)

\* todos.js 246
DeleteStmt(id) == Stmt(<<Lit("DELETE FROM tasks"), Lit(" WHERE id = "), Ph(1), Lit(" RETURNING *")>>, <<id>>)

\* the UPDATE of PATCH without its WHERE clause
CompleteEvery(id, completed) ==
  Stmt(<<Lit("UPDATE tasks SET "), Lit("completed"), Lit(" = "), Ph(1), Lit(", "),
         Lit("updated_at = NOW()"), Lit(" RETURNING *")>>,
       <<completed>>)

\* todos.js 275-278
CompleteStmt(id, completed) ==
  Stmt(<<Lit("UPDATE tasks SET "), Lit("completed"), Lit(" = "), Ph(1), Lit(", "),
         Lit("updated_at = NOW()"), Lit(" WHERE id = "), Ph(2), Lit(" RETURNING *")>>,
       <<completed, id>>)

(***************************************************************************)
(* The database: the table tasks of init.sql and the execution of the      *)
(* statements above.  A row is a record of the eight columns.              *)
(***************************************************************************)
Row(id, title, description, priority, due_date, completed, created_at, updated_at) ==
  [id |-> id, title |-> title, description |-> description, priority |-> priority,
   due_date |-> due_date, completed |-> completed, created_at |-> created_at,
   updated_at |-> updated_at]

\* the value that stands for "no row" in a response
NoTask == Row(0, Null, Null, Null, Null, Null, 0, 0)

\* a value the server could not convert to the type of its column
Invalid == [ty |-> "invalid", s |-> <<>>, b |-> FALSE, n |-> 0]

\* a text parameter
PgText(v) ==
  CASE v.ty = "string" -> v
    [] v.ty = "null" -> Null
    [] v.ty = "boolean" -> Str(ToStr(v))
    [] OTHER -> Invalid

\* a boolean parameter
PgBool(v) ==
  CASE v.ty = "boolean" -> v
    [] v.ty = "null" -> Null
    [] v.ty = "string" /\ Lower(Trim(v.s)) \in {<<"t", "r", "u", "e">>, <<"t">>, <<"1">>} -> Bool(TRUE)
    [] v.ty = "string" /\ Lower(Trim(v.s)) \in {<<"f", "a", "l", "s", "e">>, <<"f">>, <<"0">>} -> Bool(FALSE)
    [] OTHER -> Invalid

\* a parameter that is an integer beyond the range of its column's type
OutOfRange == [ty |-> "out of range", s |-> <<>>, b |-> FALSE, n |-> 0]

\* an integer parameter: the whole text must be an optionally signed
\* integer, of at most MaxInt4
PgInt(v) ==
  CASE v.ty = "number" -> v
    [] v.ty = "null" -> Null
    [] v.ty = "string" /\ Unsigned(Trim(v.s)) # <<>>
         /\ DigitPrefix(Unsigned(Trim(v.s))) = Len(Unsigned(Trim(v.s)))
         -> IF BeyondInt4(Unsigned(Trim(v.s))) THEN OutOfRange
            ELSE Num(Signed(Trim(v.s), DecimalValue(Unsigned(Trim(v.s)))))
    [] OTHER -> Invalid

\* the texts the column type TIMESTAMP reads as a date: YYYY-MM-DD with a
\* month 01..12 and a day 01..31
IsPgDate(s) ==
  /\ Len(s) = 10
  /\ s[5] = "-" /\ s[8] = "-"
  /\ \A i \in {1, 2, 3, 4, 6, 7, 9, 10} : IsDigit(s[i])
  /\ DecimalValue(<<s[6], s[7]>>) \in 1..12
  /\ DecimalValue(<<s[9], s[10]>>) \in 1..31

\* a timestamp parameter; the instant of the date YYYY-MM-DD is the number YYYYMMDD
PgTimestamp(v) ==
  CASE v.ty = "null" -> Null
    [] v.ty = "string" /\ IsPgDate(v.s)
         -> Num(DecimalValue(<<v.s[1], v.s[2], v.s[3], v.s[4], v.s[6], v.s[7], v.s[9], v.s[10]>>))
    [] OTHER -> Invalid

\* the conversion of a parameter to the type of column col
ColValue(col, v) ==
  CASE col \in {"title", "description", "priority"} -> PgText(v)
    [] col = "due_date" -> PgTimestamp(v)
    [] col = "completed" -> PgBool(v)
    [] OTHER -> Invalid

\* the numbers of the placeholders of a text
Placeholders(text) == {text[i].n : i \in {j \in DOMAIN text : text[j].ph}}

\* the parameter bound to the placeholder at position i of the text
Arg(stmt, i) ==
  IF i \in DOMAIN stmt.text /\ stmt.text[i].ph /\ stmt.text[i].n \in DOMAIN stmt.params
  THEN stmt.params[stmt.text[i].n]
  ELSE Invalid

\* the positions of the literal s in the text
At(stmt, s) == {i \in DOMAIN stmt.text : stmt.text[i] = Lit(s)}

\* the SQL comparison a = b: never true of NULL
SqlEq(a, b) == a.ty # "null" /\ a = b

\* the WHERE clause of a statement, evaluated on a row
Where(stmt, row) ==
  /\ \A i \in At(stmt, " AND priority = ") : SqlEq(row.priority, PgText(Arg(stmt, i + 1)))
  /\ \A i \in At(stmt, " AND completed = ") : SqlEq(row.completed, PgBool(Arg(stmt, i + 1)))
  /\ \A i \in At(stmt, " AND (title ILIKE ") :
       \/ ILike(row.title, ToStr(PgText(Arg(stmt, i + 1))))
       \/ ILike(row.description, ToStr(PgText(Arg(stmt, i + 3))))
  /\ \A i \in At(stmt, " WHERE id = ") : Num(row.id) = PgInt(Arg(stmt, i + 1))

\* the column assignments of an UPDATE without the stamp on updated_at
AssignUnstamped(stmt, row, now) ==
  [c \in DOMAIN row |->
     IF \E i \in At(stmt, c) : i + 2 \in DOMAIN stmt.text /\ stmt.text[i + 1] = Lit(" = ")
     THEN ColValue(c, Arg(stmt, (CHOOSE i \in At(stmt, c) : stmt.text[i + 1] = Lit(" = ")) + 2))
     ELSE row[c]]

\* the column assignments of an UPDATE whose trigger stamps created_at too
AssignBoth(stmt, row, now) ==
  [c \in DOMAIN row |->
     IF c \in {"created_at", "updated_at"} THEN now
     ELSE IF \E i \in At(stmt, c) : i + 2 \in DOMAIN stmt.text /\ stmt.text[i + 1] = Lit(" = ")
          THEN ColValue(c, Arg(stmt, (CHOOSE i \in At(stmt, c) : stmt.text[i + 1] = Lit(" = ")) + 2))
          ELSE row[c]]

\* the column assignments `col = $n` of an UPDATE, applied to a row; the
\* trigger update_tasks_updated_at stamps every updated row
Assign(stmt, row, now) ==
  [c \in DOMAIN row |->
     IF c = "updated_at" THEN now
     ELSE IF \E i \in At(stmt, c) : i + 2 \in DOMAIN stmt.text /\ stmt.text[i + 1] = Lit(" = ")
          THEN ColValue(c, Arg(stmt, (CHOOSE i \in At(stmt, c) : stmt.text[i + 1] = Lit(" = ")) + 2))
          ELSE row[c]]

\* the row an INSERT builds from its five values
Inserted(stmt, id, now) ==
  Row(id, ColValue("title", Arg(stmt, 2)), ColValue("description", Arg(stmt, 4)),
      ColValue("priority", Arg(stmt, 6)), ColValue("due_date", Arg(stmt, 8)),
      ColValue("completed", Arg(stmt, 10)), now, now)

\* the SQLSTATE a row raises against the column types and constraints of
\* init.sql, "" when it raises none
RowError(row) ==
  IF \E c \in {"title", "description", "priority", "due_date", "completed"} : row[c].ty = "invalid"
    THEN "22P02"
  ELSE IF row.title.ty = "null" THEN "23502"
  ELSE IF Len(row.title.s) > 255 THEN "22001"
  ELSE IF row.priority.ty # "null" /\ row.priority.s \notin {Low, Medium, High} THEN "23514"
  ELSE ""

\* the SQLSTATE raised before any row is read: a parameter list that does
\* not fit the placeholders, an id, LIMIT or OFFSET that is no integer or
\* out of range
StmtError(stmt) ==
  IF Placeholders(stmt.text) # 1..Len(stmt.params) THEN "08P01"
  ELSE IF \E i \in At(stmt, " WHERE id = ") : PgInt(Arg(stmt, i + 1)) = OutOfRange THEN "22003"
  ELSE IF \E i \in At(stmt, " WHERE id = ") : PgInt(Arg(stmt, i + 1)).ty # "number" THEN "22P02"
  ELSE IF \E i \in At(stmt, " AND completed = ") : PgBool(Arg(stmt, i + 1)).ty = "invalid" THEN "22P02"
  ELSE IF \E i \in At(stmt, " ORDER BY created_at DESC LIMIT ") \cup At(stmt, " OFFSET ") :
            Arg(stmt, i + 1).ty # "number" THEN "22P02"
  ELSE IF \E i \in At(stmt, " ORDER BY created_at DESC LIMIT ") : Arg(stmt, i + 1).n < 0 THEN "2201W"
  ELSE IF \E i \in At(stmt, " OFFSET ") : Arg(stmt, i + 1).n < 0 THEN "2201X"
  ELSE ""

\* the value bound to LIMIT
LimitArg(stmt) == Arg(stmt, (CHOOSE i \in At(stmt, " ORDER BY created_at DESC LIMIT ") : TRUE) + 1).n

\* the value bound to OFFSET
OffsetArg(stmt) == Arg(stmt, (CHOOSE i \in At(stmt, " OFFSET ") : TRUE) + 1).n

\* the rows of S in every order that ORDER BY created_at DESC allows: rows
\* of equal created_at come in any order
Orders(S) ==
  {f \in [1..Cardinality(S) -> S] :
     /\ \A i, j \in 1..Cardinality(S) : i # j => f[i] # f[j]
     /\ \A i, j \in 1..Cardinality(S) : i < j => f[i].created_at >= f[j].created_at}

\* LIMIT lim OFFSET off of a sequence of rows
LimitOffset(rows, lim, off) ==
  [i \in 1..(IF Len(rows) - off < 0 THEN 0 ELSE IF Len(rows) - off < lim THEN Len(rows) - off ELSE lim)
     |-> rows[i + off]]

RECURSIVE ToDecimal(_)
\* the decimal digits of a natural number, as the driver returns a bigint
ToDecimal(n) == IF n < 10 THEN <<Digits[n + 1]>> ELSE Append(ToDecimal(n \div 10), Digits[(n % 10) + 1])

\* the outcome of a statement: an SQLSTATE or "", the rows returned, the
\* value of COUNT(*), the table and the id sequence afterwards
Outcome(err, rows, count, table, seq) ==
  [err |-> err, rows |-> rows, count |-> count, tasks |-> table, seq |-> seq]

\* the outcomes the database can give for a statement on a table
Exec(stmt, table, seq, now) ==
  LET kind == stmt.text[1].s
      hit == {r \in table : Where(stmt, r)}
  IN IF StmtError(stmt) # "" THEN {Outcome(StmtError(stmt), <<>>, Null, table, seq)}
     ELSE CASE kind = "SELECT * FROM tasks WHERE 1=1" ->
                 {Outcome("", LimitOffset(ord, LimitArg(stmt), OffsetArg(stmt)), Null, table, seq) :
                    ord \in Orders(hit)}
            [] kind = "SELECT COUNT(*) FROM tasks WHERE 1=1" ->
                 {Outcome("", <<>>, Str(ToDecimal(Cardinality(hit))), table, seq)}
            [] kind = "SELECT * FROM tasks" ->
                 {Outcome("", ord, Null, table, seq) : ord \in Orders(hit)}
            [] kind = "INSERT INTO tasks (title, description, priority, due_date, completed) VALUES (" ->
                 IF RowError(Inserted(stmt, seq, now)) # ""
                 THEN {Outcome(RowError(Inserted(stmt, seq, now)), <<>>, Null, table, seq + 1)}
                 ELSE {Outcome("", <<Inserted(stmt, seq, now)>>, Null,
                               table \cup {Inserted(stmt, seq, now)}, seq + 1)}
            [] kind = "UPDATE tasks SET " ->
                 IF \E r \in hit : RowError(Assign(stmt, r, now)) # ""
                 THEN {Outcome(RowError(Assign(stmt, CHOOSE r \in hit : RowError(Assign(stmt, r, now)) # "", now)),
                               <<>>, Null, table, seq)}
                 ELSE {Outcome("", [i \in 1..Len(ord) |-> Assign(stmt, ord[i], now)], Null,
                               (table \ hit) \cup {Assign(stmt, r, now) : r \in hit}, seq) : ord \in Orders(hit)}
            [] kind = "DELETE FROM tasks" ->
                 {Outcome("", ord, Null, table \ hit, seq) : ord \in Orders(hit)}
            [] OTHER -> {Outcome("42601", <<>>, Null, table, seq)}

(***************************************************************************)
(* State.                                                                  *)
(***************************************************************************)
VARIABLES
  tasks,    \* the rows of the table tasks
  seq,      \* the next value of the SERIAL sequence of tasks.id
  now,      \* the clock read by NOW()
  req,      \* the request the last handler ran for
  resp,     \* the response it sent
  issued,   \* the statements it sent to the database, in order
  pre,      \* the table as it was when that handler started
  created,  \* the tasks as POST /tasks answered them, not changed since
  updates,  \* the number of UPDATE statements that changed a row so far
  prev,     \* the request handled before this one and the texts it issued
  deleted,  \* the ids DELETE /tasks/:id answered 204 for
  nodeEnv,  \* process.env.NODE_ENV
  fault,    \* the failure the database has in store for the next request
  thrown,   \* the error handed to the error handler on its own, NoError when none
  probe,    \* what the probe query of the health request in progress came to
  inflight, \* the requests the clients have in progress at once, statement by statement
  walk,     \* the pages a client has read one after the other, no write between
  deploy    \* the run of deploy.sh, the environment files and the containers

vars == <<tasks, seq, now, req, resp, issued, pre, created, updates, prev, deleted, nodeEnv, fault, thrown,
          probe, inflight, walk, deploy>>

Request(op, id, q, body) == [op |-> op, id |-> id, q |-> q, body |-> body]

NoPagination == [page |-> Undef, limit |-> Undef, total |-> Undef, pages |-> Undef]

\* a response: the HTTP status and the fields of the JSON body; keys holds
\* the names of the fields the body has, statusCode is Undef when the body
\* has no such field; state and database are the fields status and
\* services.database of the health routes, "" elsewhere
Response(status, error, details, task, list, pagination) ==
  [status |-> status, error |-> error, details |-> details, task |-> task,
   tasks |-> list, pagination |-> pagination, statusCode |-> Undef, keys |-> {},
   state |-> "", database |-> ""]

\* the response r, its body an object literal with these keys
Json(r, keys) == [r EXCEPT !.keys = keys]

\* res.status(400).json({ error: 'Validation Error', details })
ValidationError(details) ==
  Json(Response(400, "Validation Error", details, NoTask, <<>>, NoPagination), {"error", "details"})

\* res.status(404).json({ error: 'Task not found' })
TaskNotFound == Json(Response(404, "Task not found", <<>>, NoTask, <<>>, NoPagination), {"error"})

\* res.status(400).json({ error: 'No fields to update' })
NoFieldsToUpdate == Json(Response(400, "No fields to update", <<>>, NoTask, <<>>, NoPagination), {"error"})

\* res.json({ task }) with the given status
TaskResponse(status, row) == Json(Response(status, "", <<>>, row, <<>>, NoPagination), {"task"})

\* an error object: its name, code, statusCode, message and details; a
\* missing code is "", a missing statusCode Undef, missing details NoDetails
Error(name, code, statusCode, message, details) ==
  [name |-> name, code |-> code, statusCode |-> statusCode, message |-> message, details |-> details]

NoDetails == [given |-> FALSE, list |-> <<>>]

Details(list) == [given |-> TRUE, list |-> list]

\* no error
NoError == Error("", "", Undef, "", NoDetails)

\* the error the database driver rejects a query with: it has an SQLSTATE
\* or a system error code, and no statusCode
DatabaseError(code) == Error("error", code, Undef, "query failed", NoDetails)

\* a chain that tests err.statusCode before the names and the codes
ClassifyStatusFirst(err) ==
  IF Truthy(err.statusCode) THEN [statusCode |-> err.statusCode, message |-> err.message, details |-> NoDetails]
  ELSE IF err.name \in {"ValidationError", "CastError"}
    THEN [statusCode |-> Num(400), message |-> "Validation Error", details |-> NoDetails]
  ELSE IF err.code = "23505" THEN [statusCode |-> Num(409), message |-> "Resource already exists", details |-> NoDetails]
  ELSE IF err.code = "23503"
    THEN [statusCode |-> Num(400), message |-> "Referenced resource does not exist", details |-> NoDetails]
  ELSE IF err.code = "23502" THEN [statusCode |-> Num(400), message |-> "Required field is missing", details |-> NoDetails]
  ELSE IF err.code = "42P01" THEN [statusCode |-> Num(500), message |-> "Database table not found", details |-> NoDetails]
  ELSE IF err.code = "ECONNREFUSED"
    THEN [statusCode |-> Num(503), message |-> "Database connection failed", details |-> NoDetails]
  ELSE [statusCode |-> Num(500), message |-> "Internal Server Error", details |-> NoDetails]

\* errorHandler.js 124-154: statusCode, message and details by the first
\* test of the chain that the error passes
Classify(err) ==
  IF err.name = "ValidationError"
    THEN [statusCode |-> Num(400), message |-> "Validation Error",
          details |-> IF err.details.given THEN err.details
                      ELSE IF err.message # "" THEN Details(<<err.message>>) ELSE NoDetails]
  ELSE IF err.name = "CastError" THEN [statusCode |-> Num(400), message |-> "Invalid ID format", details |-> NoDetails]
  ELSE IF err.code = "23505" THEN [statusCode |-> Num(409), message |-> "Resource already exists", details |-> NoDetails]
  ELSE IF err.code = "23503"
    THEN [statusCode |-> Num(400), message |-> "Referenced resource does not exist", details |-> NoDetails]
  ELSE IF err.code = "23502" THEN [statusCode |-> Num(400), message |-> "Required field is missing", details |-> NoDetails]
  ELSE IF err.code = "42P01" THEN [statusCode |-> Num(500), message |-> "Database table not found", details |-> NoDetails]
  ELSE IF err.code = "ECONNREFUSED"
    THEN [statusCode |-> Num(503), message |-> "Database connection failed", details |-> NoDetails]
  ELSE IF Truthy(err.statusCode) THEN [statusCode |-> err.statusCode, message |-> err.message, details |-> NoDetails]
  ELSE [statusCode |-> Num(500), message |-> "Internal Server Error", details |-> NoDetails]

\* errorHandler.js 156-160: in production a 500 shows no message or details
Suppress(c, env) ==
  IF env = "production" /\ c.statusCode = Num(500)
  THEN [c EXCEPT !.message = "Internal Server Error", !.details = NoDetails]
  ELSE c

\* errorHandler.js 119-180: the response to an error passed to next()
errorHandler(err, env) ==
  LET c == Suppress(Classify(err), env)
  IN [Response(c.statusCode.n, c.message, c.details.list, NoTask, <<>>, NoPagination)
        EXCEPT !.statusCode = c.statusCode,
               !.keys = {"error", "statusCode", "timestamp", "path", "method"}
                          \cup (IF c.details.given THEN {"details"} ELSE {})
                          \cup (IF env = "development" THEN {"stack"} ELSE {})]

\* errorHandler.js 182-191: the response to a request no route matches
notFoundHandler ==
  [Response(404, "Not Found", <<>>, NoTask, <<>>, NoPagination)
     EXCEPT !.statusCode = Num(404),
            !.keys = {"error", "statusCode", "timestamp", "path", "method", "message"}]

\* todos.js 24-35: the details validateRequest(schema) answers 400 with,
\* <<>> when it calls next()
validateRequest(schema, b) == JoiDetails(schema, b)

\* no failure in store
NoFault == [at |-> 0, code |-> ""]

\* the k-th query of a handler: req.db.query(text, params) is rejected with
\* the failure in store for it, or else runs on the table
Query(k, stmt) ==
  IF fault.at = k THEN {Outcome(fault.code, <<>>, Null, tasks, seq)}
  ELSE Exec(stmt, tasks, seq, now)

\* the clients that send requests while others are in progress
Clients == 1..MaxClients

\* no request in progress: of a request, pc tells where its handler stands
\* ("idle", "update" before the UPDATE of a PUT, "count" before the count
\* query of GET /tasks, "done" when the response is out), rows holds the
\* rows of the data query, first and last the places of its first and its
\* last statement among those issued, read the table its first statement
\* ran on, after the table its last statement left
NoCall ==
  [op |-> "", id |-> Undef, body |-> NoBody, q |-> NoQuery, pc |-> "idle",
   resp |-> Response(0, "", <<>>, NoTask, <<>>, NoPagination), rows |-> <<>>,
   first |-> 0, last |-> 0, read |-> {}, after |-> {}]

\* no page read yet: q the query of the pages read, page the last page
\* read, rows the rows of the pages 1..page one after the other, pages the
\* number of pages the responses announced
NoWalk == [q |-> NoQuery, page |-> 0, rows |-> <<>>, pages |-> 0]

\* no run of deploy.sh yet, no environment file, no container: pc is the
\* step the script stands before ("" when it is not running), file the
\* tag in DOCKER_IMAGE of .env.<environment> ("" when there is no file),
\* count and image the running instances of the API and the tag of their
\* image, ran the functions of the script this run has executed, up the
\* instances running when deploy_application began, low the fewest since
NotDeployed ==
  [pc |-> "", environment |-> "", tag |-> "", ci |-> FALSE, status |-> 0,
   file |-> [e \in {"staging", "production"} |-> ""],
   count |-> [e \in {"staging", "production"} |-> 0],
   image |-> [e \in {"staging", "production"} |-> ""],
   ran |-> {}, up |-> 0, low |-> 0]

\* the state after start-up, NODE_ENV left open
Start ==
  /\ tasks = {}
  /\ seq = 1
  /\ now = 0
  /\ req = Request("", Undef, NoQuery, NoBody)
  /\ resp = Response(0, "", <<>>, NoTask, <<>>, NoPagination)
  /\ issued = <<>>
  /\ pre = {}
  /\ created = {}
  /\ updates = 0
  /\ prev = [req |-> Request("", Undef, NoQuery, NoBody), texts |-> <<>>]
  /\ deleted = {}
  /\ fault = NoFault
  /\ thrown = NoError
  /\ probe = ""
  /\ inflight = [c \in Clients |-> NoCall]
  /\ walk = NoWalk
  /\ deploy = NotDeployed

\* the service as deployed (README.md: NODE_ENV=production)
Init == Start /\ nodeEnv = "production"

\* no request is being handled
Idle == req.op = ""

\* the response has gone out and the handler has returned
Reply ==
  /\ ~Idle
  /\ req' = Request("", Undef, NoQuery, NoBody)
  /\ resp' = Response(0, "", <<>>, NoTask, <<>>, NoPagination)
  /\ issued' = <<>>
  /\ pre' = {}
  /\ UNCHANGED <<tasks, seq, now>>

\* time passes between two requests
Tick ==
  /\ Idle
  /\ now < MaxTime
  /\ now' = now + 1
  /\ UNCHANGED <<tasks, seq, req, resp, issued, pre>>

\* todos.js 90-98: the envelope of GET /tasks
Envelope(q, rows, totalCount) ==
  Json(Response(200, "", <<>>, NoTask, rows,
                [page |-> JsonNumber(parseInt(PageOf(q))),
                 limit |-> JsonNumber(parseInt(LimitOf(q))),
                 total |-> JsonNumber(totalCount),
                 pages |-> JsonNumber(IF totalCount.ty = "number" /\ parseInt(LimitOf(q)).ty = "number"
                                      THEN CeilDiv(totalCount.n, parseInt(LimitOf(q)).n)
                                      ELSE NaN)]),
       {"tasks", "pagination"})

\* a handler of GET /tasks that answers the rows it has when the count
\* query fails
ListTasksPartial(q) ==
  /\ Idle
  /\ req' = Request("GET /tasks", Undef, q, NoBody)
  /\ pre' = tasks
  /\ UNCHANGED <<tasks, seq, now>>
  /\ \E data \in Query(1, query(q)) :
       IF data.err # ""
       THEN /\ issued' = <<query(q)>>
            /\ resp' = errorHandler(DatabaseError(data.err), nodeEnv)
       ELSE \E count \in Query(2, countQuery(q)) :
              /\ issued' = <<query(q), countQuery(q)>>
              /\ resp' = IF count.err # "" THEN Envelope(q, data.rows, NaN)
                         ELSE Envelope(q, data.rows, parseInt(count.count))

\* GET /tasks (todos.js 38-102)
ListTasks(q) ==
  /\ Idle
  /\ req' = Request("GET /tasks", Undef, q, NoBody)
  /\ pre' = tasks
  /\ UNCHANGED <<tasks, seq, now>>
  /\ \E data \in Query(1, query(q)) :
       IF data.err # ""
       THEN /\ issued' = <<query(q)>>
            /\ resp' = errorHandler(DatabaseError(data.err), nodeEnv)
       ELSE \E count \in Query(2, countQuery(q)) :
              /\ issued' = <<query(q), countQuery(q)>>
              /\ resp' = IF count.err # "" THEN errorHandler(DatabaseError(count.err), nodeEnv)
                         ELSE Envelope(q, data.rows, parseInt(count.count))

\* GET /tasks/:id (todos.js 105-128)
GetTask(id) ==
  /\ Idle
  /\ req' = Request("GET /tasks/:id", id, NoQuery, NoBody)
  /\ pre' = tasks
  /\ UNCHANGED <<tasks, seq, now>>
  /\ IF IdErrors(id) # <<>>
     THEN /\ issued' = <<>>
          /\ resp' = ValidationError(IdErrors(id))
     ELSE \E result \in Query(1, SelectById(id)) :
            /\ issued' = <<SelectById(id)>>
            /\ resp' = IF result.err # "" THEN errorHandler(DatabaseError(result.err), nodeEnv)
                       ELSE IF Len(result.rows) = 0 THEN TaskNotFound
                       ELSE TaskResponse(200, result.rows[1])

\* does POST /tasks with this body reach its INSERT
CreateValid(b) ==
  /\ validateRequest(createTaskSchema, SanitizeCreate(b)) = <<>>
  /\ CreateErrors(SanitizeCreate(b)) = <<>>

\* POST /tasks (todos.js 131-158): the chain of express-validator, then
\* validateRequest(createTaskSchema), then the handler
CreateTask(b) ==
  /\ Idle
  /\ CreateValid(b) => Cardinality(tasks) < MaxTasks /\ seq <= MaxId
  /\ req' = Request("POST /tasks", Undef, NoQuery, b)
  /\ pre' = tasks
  /\ UNCHANGED now
  /\ LET body == SanitizeCreate(b)
     IN IF validateRequest(createTaskSchema, body) # <<>>
        THEN /\ resp' = ValidationError(validateRequest(createTaskSchema, body))
             /\ issued' = <<>>
             /\ UNCHANGED <<tasks, seq>>
        ELSE IF CreateErrors(body) # <<>>
        THEN /\ resp' = ValidationError(CreateErrors(body))
             /\ issued' = <<>>
             /\ UNCHANGED <<tasks, seq>>
        ELSE \E result \in Query(1, InsertStmt(body)) :
               /\ issued' = <<InsertStmt(body)>>
               /\ tasks' = result.tasks
               /\ seq' = result.seq
               /\ resp' = IF result.err # "" THEN errorHandler(DatabaseError(result.err), nodeEnv)
                          ELSE TaskResponse(201, result.rows[1])

\* PUT /tasks/:id (todos.js 161-229)
UpdateTask(id, b) ==
  /\ Idle
  /\ req' = Request("PUT /tasks/:id", id, NoQuery, b)
  /\ pre' = tasks
  /\ UNCHANGED <<seq, now>>
  /\ LET body == SanitizeUpdate(b)
     IN IF validateRequest(updateTaskSchema, body) # <<>>
        THEN /\ resp' = ValidationError(validateRequest(updateTaskSchema, body))
             /\ issued' = <<>>
             /\ UNCHANGED tasks
        ELSE IF UpdateErrors(id, body) # <<>>
        THEN /\ resp' = ValidationError(UpdateErrors(id, body))
             /\ issued' = <<>>
             /\ UNCHANGED tasks
        ELSE \E existingTask \in Query(1, SelectById(id)) :
               IF existingTask.err # ""
               THEN /\ resp' = errorHandler(DatabaseError(existingTask.err), nodeEnv)
                    /\ issued' = <<SelectById(id)>>
                    /\ UNCHANGED tasks
               ELSE IF Len(existingTask.rows) = 0
               THEN /\ resp' = TaskNotFound
                    /\ issued' = <<SelectById(id)>>
                    /\ UNCHANGED tasks
               ELSE IF updateFields(body, 5, Build(<<>>, <<>>, 0)).paramCount = 0
               THEN /\ resp' = NoFieldsToUpdate
                    /\ issued' = <<SelectById(id)>>
                    /\ UNCHANGED tasks
               ELSE \E result \in Query(2, UpdateStmt(id, body)) :
                      /\ issued' = <<SelectById(id), UpdateStmt(id, body)>>
                      /\ tasks' = result.tasks
                      /\ resp' = IF result.err # "" THEN errorHandler(DatabaseError(result.err), nodeEnv)
                                 ELSE IF Len(result.rows) = 0
                                 THEN Response(200, "", <<>>, NoTask, <<>>, NoPagination)
                                 ELSE TaskResponse(200, result.rows[1])

\* DELETE /tasks/:id (todos.js 232-256)
DeleteTask(id) ==
  /\ Idle
  /\ req' = Request("DELETE /tasks/:id", id, NoQuery, NoBody)
  /\ pre' = tasks
  /\ UNCHANGED <<seq, now>>
  /\ IF IdErrors(id) # <<>>
     THEN /\ issued' = <<>>
          /\ resp' = ValidationError(IdErrors(id))
          /\ UNCHANGED tasks
     ELSE \E result \in Query(1, DeleteStmt(id)) :
            /\ issued' = <<DeleteStmt(id)>>
            /\ tasks' = result.tasks
            /\ resp' = IF result.err # "" THEN errorHandler(DatabaseError(result.err), nodeEnv)
                       ELSE IF Len(result.rows) = 0 THEN TaskNotFound
                       ELSE Response(204, "", <<>>, NoTask, <<>>, NoPagination)

\* PATCH /tasks/:id/complete (todos.js 259-288)
CompleteTask(id, b) ==
  /\ Idle
  /\ req' = Request("PATCH /tasks/:id/complete", id, NoQuery, b)
  /\ pre' = tasks
  /\ UNCHANGED <<seq, now>>
  /\ IF CompleteErrors(id, b) # <<>>
     THEN /\ issued' = <<>>
          /\ resp' = ValidationError(CompleteErrors(id, b))
          /\ UNCHANGED tasks
     ELSE \E result \in Query(1, CompleteStmt(id, b.completed)) :
            /\ issued' = <<CompleteStmt(id, b.completed)>>
            /\ tasks' = result.tasks
            /\ resp' = IF result.err # "" THEN errorHandler(DatabaseError(result.err), nodeEnv)
                       ELSE IF Len(result.rows) = 0 THEN TaskNotFound
                       ELSE TaskResponse(200, result.rows[1])

\* a request that no route matches ends in notFoundHandler (app.js)
NoRoute ==
  /\ Idle
  /\ req' = Request("GET /unknown", Undef, NoQuery, NoBody)
  /\ pre' = tasks
  /\ issued' = <<>>
  /\ resp' = notFoundHandler
  /\ UNCHANGED <<tasks, seq, now>>

\* a middleware or a handler calls next(err): express hands err to errorHandler
HandleError(err) ==
  /\ Idle
  /\ req' = Request("next(err)", Undef, NoQuery, NoBody)
  /\ pre' = tasks
  /\ issued' = <<>>
  /\ thrown' = err
  /\ resp' = errorHandler(err, nodeEnv)
  /\ UNCHANGED <<tasks, seq, now>>

\* the database or the connection to it breaks: the k-th query of the next
\* request will be rejected with this code
Break(k, code) ==
  /\ Idle
  /\ fault = NoFault
  /\ fault' = [at |-> k, code |-> code]
  /\ UNCHANGED <<tasks, seq, now, req, resp, issued, pre, created, updates, prev, deleted, nodeEnv, thrown,
               probe, inflight, walk, deploy>>

(***************************************************************************)
(* The health routes (routes/health.js).  The probe query resolves with    *)
(* its row, resolves without a row, or is rejected.                        *)
(***************************************************************************)
\* res.status(...).json({ status, ..., services: { database } }) of a health route
HealthResponse(status, state, error, database, keys) ==
  [Response(status, error, <<>>, NoTask, <<>>, NoPagination)
     EXCEPT !.state = state, !.database = database, !.keys = keys]

\* the probe query of a health route
Probe(name) == Stmt(<<Lit("SELECT 1 as "), Lit(name)>>, <<>>)

\* a health route that reports healthy whatever the probe came to
HealthDeaf(outcome) ==
  /\ Idle
  /\ req' = Request("GET /health", Undef, NoQuery, NoBody)
  /\ pre' = tasks
  /\ issued' = <<Probe("health_check")>>
  /\ probe' = outcome
  /\ resp' = HealthResponse(200, "healthy", "", "connected",
                            {"status", "timestamp", "uptime", "environment", "version", "services", "memory"})
  /\ UNCHANGED <<tasks, seq, now>>

\* GET /health (health.js 5-39)
Health(outcome) ==
  /\ Idle
  /\ req' = Request("GET /health", Undef, NoQuery, NoBody)
  /\ pre' = tasks
  /\ issued' = <<Probe("health_check")>>
  /\ probe' = outcome
  /\ resp' = IF outcome = "rejected"
             THEN HealthResponse(503, "unhealthy", "Database connection failed", "disconnected",
                                 {"status", "timestamp", "error", "services"})
             ELSE HealthResponse(200, "healthy", "", IF outcome = "row" THEN "connected" ELSE "disconnected",
                                 {"status", "timestamp", "uptime", "environment", "version", "services", "memory"})
  /\ UNCHANGED <<tasks, seq, now>>

\* GET /health/ready (health.js 42-66)
Ready(outcome) ==
  /\ Idle
  /\ req' = Request("GET /health/ready", Undef, NoQuery, NoBody)
  /\ pre' = tasks
  /\ issued' = <<Probe("ready_check")>>
  /\ probe' = outcome
  /\ resp' = IF outcome = "row" THEN HealthResponse(200, "ready", "", "", {"status", "timestamp"})
             ELSE HealthResponse(503, "not ready", "", "", {"status", "timestamp", "reason"})
  /\ UNCHANGED <<tasks, seq, now>>

\* GET /health/live (health.js 69-75)
Live ==
  /\ Idle
  /\ req' = Request("GET /health/live", Undef, NoQuery, NoBody)
  /\ pre' = tasks
  /\ issued' = <<>>
  /\ probe' = ""
  /\ resp' = HealthResponse(200, "alive", "", "", {"status", "timestamp", "uptime"})
  /\ UNCHANGED <<tasks, seq, now>>

(***************************************************************************)
(* Requests in progress at once.  Node runs a handler up to its next       *)
(* await; the database runs one statement at a time, each in its own       *)
(* transaction.  A step below is a handler from its start, or from the     *)
(* answer to a query, up to and including its next query.                  *)
(***************************************************************************)
\* the request of client c, at its start
Call(c, op, id, q, b) ==
  [NoCall EXCEPT !.op = op, !.id = id, !.q = q, !.body = b, !.first = Len(issued) + 1,
                 !.last = Len(issued) + 1, !.read = tasks, !.after = tasks]

\* the request of client c ends with this response
Done(call, response) == [call EXCEPT !.pc = "done", !.resp = response]

\* POST /tasks of client c (todos.js 131-158), a valid body; the clients
\* that send requests at once keep the table below MaxTasks rows
CreateCall(c, b) ==
  /\ inflight[c].pc = "idle"
  /\ CreateValid(b)
  /\ Cardinality(tasks) < MaxTasks - 1 /\ seq < MaxId
  /\ \E result \in Query(1, InsertStmt(SanitizeCreate(b))) :
       /\ tasks' = result.tasks
       /\ seq' = result.seq
       /\ issued' = Append(issued, InsertStmt(SanitizeCreate(b)))
       /\ inflight' = [inflight EXCEPT ![c] =
            Done([Call(c, "POST /tasks", Undef, NoQuery, b) EXCEPT !.after = result.tasks],
                 IF result.err # "" THEN errorHandler(DatabaseError(result.err), nodeEnv)
                 ELSE TaskResponse(201, result.rows[1]))]

\* a DELETE that answers 204 whether or not its statement removed a row
DeleteBlind(c, id) ==
  /\ inflight[c].pc = "idle"
  /\ IdErrors(id) = <<>>
  /\ UNCHANGED seq
  /\ \E result \in Query(1, DeleteStmt(id)) :
       /\ tasks' = result.tasks
       /\ issued' = Append(issued, DeleteStmt(id))
       /\ inflight' = [inflight EXCEPT ![c] =
            Done([Call(c, "DELETE /tasks/:id", id, NoQuery, NoBody) EXCEPT !.after = result.tasks],
                 Response(204, "", <<>>, NoTask, <<>>, NoPagination))]

\* DELETE /tasks/:id of client c (todos.js 232-256), a valid id
DeleteCall(c, id) ==
  /\ inflight[c].pc = "idle"
  /\ IdErrors(id) = <<>>
  /\ UNCHANGED seq
  /\ \E result \in Query(1, DeleteStmt(id)) :
       /\ tasks' = result.tasks
       /\ issued' = Append(issued, DeleteStmt(id))
       /\ inflight' = [inflight EXCEPT ![c] =
            Done([Call(c, "DELETE /tasks/:id", id, NoQuery, NoBody) EXCEPT !.after = result.tasks],
                 IF result.err # "" THEN errorHandler(DatabaseError(result.err), nodeEnv)
                 ELSE IF Len(result.rows) = 0 THEN TaskNotFound
                 ELSE Response(204, "", <<>>, NoTask, <<>>, NoPagination))]

\* a PUT that goes on to its UPDATE whatever its existence check found
PutUnchecked(c, id, b) ==
  /\ inflight[c].pc = "idle"
  /\ validateRequest(updateTaskSchema, SanitizeUpdate(b)) = <<>>
  /\ UpdateErrors(id, SanitizeUpdate(b)) = <<>>
  /\ UNCHANGED <<tasks, seq>>
  /\ \E existingTask \in Query(1, SelectById(id)) :
       /\ issued' = Append(issued, SelectById(id))
       /\ inflight' = [inflight EXCEPT ![c] =
            [Call(c, "PUT /tasks/:id", id, NoQuery, b) EXCEPT !.pc = "update"]]

\* PUT /tasks/:id of client c up to its existence check (todos.js 161-215),
\* a valid id and body
PutCheck(c, id, b) ==
  /\ inflight[c].pc = "idle"
  /\ validateRequest(updateTaskSchema, SanitizeUpdate(b)) = <<>>
  /\ UpdateErrors(id, SanitizeUpdate(b)) = <<>>
  /\ UNCHANGED <<tasks, seq>>
  /\ \E existingTask \in Query(1, SelectById(id)) :
       /\ issued' = Append(issued, SelectById(id))
       /\ inflight' = [inflight EXCEPT ![c] =
            LET call == Call(c, "PUT /tasks/:id", id, NoQuery, b)
            IN IF existingTask.err # ""
               THEN Done(call, errorHandler(DatabaseError(existingTask.err), nodeEnv))
               ELSE IF Len(existingTask.rows) = 0 THEN Done(call, TaskNotFound)
               ELSE IF updateFields(SanitizeUpdate(b), 5, Build(<<>>, <<>>, 0)).paramCount = 0
               THEN Done(call, NoFieldsToUpdate)
               ELSE [call EXCEPT !.pc = "update"]]

\* an UPDATE that writes the table as the existence check of its PUT read it
PutStale(c) ==
  /\ inflight[c].pc = "update"
  /\ UNCHANGED seq
  /\ \E result \in Exec(UpdateStmt(inflight[c].id, SanitizeUpdate(inflight[c].body)),
                        inflight[c].read, seq, now) :
       /\ tasks' = result.tasks
       /\ issued' = Append(issued, UpdateStmt(inflight[c].id, SanitizeUpdate(inflight[c].body)))
       /\ inflight' = [inflight EXCEPT ![c] =
            Done([inflight[c] EXCEPT !.last = Len(issued) + 1, !.after = result.tasks],
                 IF Len(result.rows) = 0 THEN Response(200, "", <<>>, NoTask, <<>>, NoPagination)
                 ELSE TaskResponse(200, result.rows[1]))]

\* PUT /tasks/:id of client c from its UPDATE on (todos.js 217-225)
PutUpdate(c) ==
  /\ inflight[c].pc = "update"
  /\ UNCHANGED seq
  /\ \E result \in Query(2, UpdateStmt(inflight[c].id, SanitizeUpdate(inflight[c].body))) :
       /\ tasks' = result.tasks
       /\ issued' = Append(issued, UpdateStmt(inflight[c].id, SanitizeUpdate(inflight[c].body)))
       /\ inflight' = [inflight EXCEPT ![c] =
            Done([inflight[c] EXCEPT !.last = Len(issued) + 1, !.after = result.tasks],
                 IF result.err # "" THEN errorHandler(DatabaseError(result.err), nodeEnv)
                 ELSE IF Len(result.rows) = 0 THEN Response(200, "", <<>>, NoTask, <<>>, NoPagination)
                 ELSE TaskResponse(200, result.rows[1]))]

\* GET /tasks of client c up to its data query (todos.js 38-65)
ListData(c, q) ==
  /\ inflight[c].pc = "idle"
  /\ UNCHANGED <<tasks, seq>>
  /\ \E data \in Query(1, query(q)) :
       /\ issued' = Append(issued, query(q))
       /\ inflight' = [inflight EXCEPT ![c] =
            LET call == Call(c, "GET /tasks", Undef, q, NoBody)
            IN IF data.err # "" THEN Done(call, errorHandler(DatabaseError(data.err), nodeEnv))
               ELSE [call EXCEPT !.pc = "count", !.rows = data.rows]]

\* GET /tasks of client c from its count query on (todos.js 68-98)
ListCount(c) ==
  /\ inflight[c].pc = "count"
  /\ UNCHANGED <<tasks, seq>>
  /\ \E count \in Query(2, countQuery(inflight[c].q)) :
       /\ issued' = Append(issued, countQuery(inflight[c].q))
       /\ inflight' = [inflight EXCEPT ![c] =
            Done([inflight[c] EXCEPT !.last = Len(issued) + 1, !.after = tasks],
                 IF count.err # "" THEN errorHandler(DatabaseError(count.err), nodeEnv)
                 ELSE Envelope(inflight[c].q, inflight[c].rows, parseInt(count.count)))]

\* every response is out: the clients may send their next requests
Settle ==
  /\ \A c \in Clients : inflight[c].pc \in {"idle", "done"}
  /\ \E c \in Clients : inflight[c].pc = "done"
  /\ inflight' = [c \in Clients |-> NoCall]
  /\ issued' = <<>>
  /\ UNCHANGED <<tasks, seq>>

\* GET /tasks?page=1 with the limit and the filters of q (todos.js 38-102):
\* a client starts to read the list page by page
FirstPage(q) ==
  /\ walk = NoWalk
  /\ ListTasks([q EXCEPT !.page = Str(<<"1">>)])
  /\ resp'.status = 200
  /\ walk' = [q |-> q, page |-> 1, rows |-> resp'.tasks, pages |-> resp'.pagination.pages.n]

\* GET /tasks for the page after the last one read, same limit and filters
\* (todos.js 38-102), up to pagination.pages of the first answer
NextPage ==
  /\ walk # NoWalk
  /\ walk.page < walk.pages
  /\ ListTasks([walk.q EXCEPT !.page = Str(ToDecimal(walk.page + 1))])
  /\ resp'.status = 200
  /\ walk' = [walk EXCEPT !.page = walk.page + 1, !.rows = walk.rows \o resp'.tasks]

\* the client has read every page from 1 to pagination.pages
WalkDone == walk # NoWalk /\ walk.page >= walk.pages

\* the response to a page goes out; after the last page the client is done
ReplyPage ==
  /\ Reply
  /\ walk' = IF WalkDone THEN NoWalk ELSE walk

(***************************************************************************)
(* scripts/deploy.sh <environment> <tag>.  A step of the script is a       *)
(* command or a function of it; the commands it calls (docker-compose,     *)
(* curl, npm) succeed or fail.  docker-compose gets the image to run       *)
(* through --env-file alone, from DOCKER_IMAGE of .env.<environment>.      *)
(***************************************************************************)
\* deploy.sh 27-30: error, and a failing command under set -e and the ERR
\* trap (lines 4, 167), end the script with status 1; line 180 with 0
Exit(d, status) == [d EXCEPT !.pc = "exit", !.status = status]

\* the script enters its function f
Enter(d, f) == [d EXCEPT !.ran = @ \cup {f}]

\* deploy.sh 7-10, 33-35, 162-167: the arguments, the test of the
\* environment, the start of main
main(environment, tag, ci) ==
  /\ deploy.pc \in {"", "exit"}
  /\ deploy' = LET d == [deploy EXCEPT !.environment = environment, !.tag = tag, !.ci = ci,
                                       !.status = 0, !.ran = {}, !.up = 0, !.low = 0]
               IN IF environment \notin {"staging", "production"} THEN Exit(d, 1)
                  ELSE [d EXCEPT !.pc = "check_prerequisites"]

\* deploy.sh 42-58
check_prerequisites(ok) ==
  /\ deploy.pc = "check_prerequisites"
  /\ deploy' = IF ok THEN [Enter(deploy, "check_prerequisites") EXCEPT !.pc = "create_environment_file"]
               ELSE Exit(Enter(deploy, "check_prerequisites"), 1)

\* deploy.sh 61-76: the file is written only when there is none
create_environment_file ==
  /\ deploy.pc = "create_environment_file"
  /\ deploy' = [Enter(deploy, "create_environment_file") EXCEPT
                  !.pc = "pull",
                  !.file[deploy.environment] = IF @ = "" THEN deploy.tag ELSE @]

\* deploy.sh 79-83: deploy_application begins, docker-compose pull
Pull(ok) ==
  /\ deploy.pc = "pull"
  /\ deploy' = LET d == [Enter(deploy, "deploy_application") EXCEPT
                           !.up = deploy.count[deploy.environment],
                           !.low = deploy.count[deploy.environment]]
               IN IF ~ok THEN Exit(d, 1)
                  ELSE [d EXCEPT !.pc = IF deploy.environment = "production" THEN "scale 0" ELSE "up"]

\* deploy.sh 88: up -d --scale todo-api-production=0
ScaleDown(ok) ==
  /\ deploy.pc = "scale 0"
  /\ deploy' = IF ~ok THEN Exit(deploy, 1)
               ELSE [deploy EXCEPT !.pc = "scale 2", !.count[deploy.environment] = 0, !.low = 0]

\* deploy.sh 89: up -d --scale todo-api-production=2
ScaleUp(ok) ==
  /\ deploy.pc = "scale 2"
  /\ deploy' = IF ~ok THEN Exit(deploy, 1)
               ELSE [deploy EXCEPT !.pc = "wait_for_deployment",
                                   !.count[deploy.environment] = 2,
                                   !.image[deploy.environment] = deploy.file[deploy.environment]]

\* deploy.sh 91: up -d of the staging services
Up(ok) ==
  /\ deploy.pc = "up"
  /\ deploy' = IF ~ok THEN Exit(deploy, 1)
               ELSE [deploy EXCEPT !.pc = "wait_for_deployment",
                                   !.count[deploy.environment] = 1,
                                   !.image[deploy.environment] = deploy.file[deploy.environment]]

\* deploy.sh 98-109
wait_for_deployment(ok) ==
  /\ deploy.pc = "wait_for_deployment"
  /\ deploy' = IF ok THEN [Enter(deploy, "wait_for_deployment") EXCEPT !.pc = "run_health_checks"]
               ELSE Exit(Enter(deploy, "wait_for_deployment"), 1)

\* deploy.sh 112-128, 176: the smoke tests follow unless CI is set
run_health_checks(ok) ==
  /\ deploy.pc = "run_health_checks"
  /\ deploy' = IF ~ok THEN Exit(Enter(deploy, "run_health_checks"), 1)
               ELSE IF deploy.ci THEN Exit(Enter(deploy, "run_health_checks"), 0)
               ELSE [Enter(deploy, "run_health_checks") EXCEPT !.pc = "run_smoke_tests"]

\* deploy.sh 131-142, 180
run_smoke_tests(ok) ==
  /\ deploy.pc = "run_smoke_tests"
  /\ deploy' = Exit(Enter(deploy, "run_smoke_tests"), IF ok THEN 0 ELSE 1)

(***************************************************************************)
(* Inputs.  The requests the clients send are drawn from small sets that   *)
(* hold, for every field, a missing value, ordinary values and the values  *)
(* at and beyond each limit of the validation.                             *)
(***************************************************************************)
\* the string of n characters c
Rep(c, n) == [i \in 1..n |-> c]

\* the title of the integration test 'should handle SQL injection attempts'
Injection == <<"'", ";", " ", "D", "R", "O", "P", " ", "T", "A", "B", "L", "E", " ", "t", "a", "s", "k", "s", ";", " ", "-", "-">>

IsoDate == <<"2", "0", "2", "4", "-", "1", "2", "-", "3", "1">>

True == <<"t", "r", "u", "e">>

False == <<"f", "a", "l", "s", "e">>

\* body b with field f set to value v
With(b, f, v) == [b EXCEPT ![f] = v]

\* the body every other body is a variation of
BaseBody == With(NoBody, "title", Str(<<"a", "b">>))

FullBody ==
  [title |-> Str(<<"T">>), description |-> Str(<<"d">>), priority |-> Str(Low),
   dueDate |-> Str(IsoDate), completed |-> Bool(TRUE), id |-> Undef]

\* the bodies that fill the table under the list endpoint
ListBodies ==
  {With(With(BaseBody, "priority", Str(High)), "completed", Bool(TRUE)),
   With(With(NoBody, "title", Str(<<"A">>)), "description", Str(<<"b">>))}

\* page and limit of the query string: missing, zero, positive, negative,
\* not a number
PageValues == {Undef, Str(<<"0">>), Str(<<"2">>), Str(<<"-", "1">>), Str(<<"x">>)}

LimitValues == {Undef, Str(<<"0">>), Str(<<"1">>), Str(<<"2">>), Str(<<"-", "1">>), Str(<<"x">>)}

PriorityFilters == {Undef, Str(High)}

CompletedFilters == {Undef, Str(True), Str(False)}

SearchFilters == {Undef, Str(<<"B">>), Str(<<"_">>)}

ListQueries ==
  [page : PageValues, limit : LimitValues, priority : PriorityFilters,
   completed : CompletedFilters, search : SearchFilters]

\* the values of the validation of POST /tasks, field by field
TitleValues ==
  {Undef, Str(<<>>), Str(<<" ">>), Str(<<" ", "c", " ">>), Str(Injection), Str(Rep("a", 255)), Str(Rep("a", 256))}

DescriptionValues == {Str(<<>>), Str(Rep("d", 1000)), Str(Rep("d", 1001))}

PriorityValues == {Str(High), Str(<<"u", "r", "g", "e", "n", "t">>)}

DueDateValues == {Str(<<"i", "n", "v", "a", "l", "i", "d", "-", "d", "a", "t", "e">>)}

CompletedValues == {Bool(FALSE), Str(<<"y", "e", "s">>)}

\* the variations of body b in one field
Variations(b) ==
  {With(b, "title", v) : v \in TitleValues}
    \cup {With(b, "description", v) : v \in DescriptionValues}
    \cup {With(b, "priority", v) : v \in PriorityValues}
    \cup {With(b, "dueDate", v) : v \in DueDateValues}
    \cup {With(b, "completed", v) : v \in CompletedValues}

CreateBodies == {BaseBody, FullBody} \cup Variations(BaseBody)

\* the bodies of the CRUD endpoints
SeedBodies == {FullBody}

UpdateBodies ==
  {NoBody, FullBody,
   With(NoBody, "title", Str(<<" ", "c", " ">>)),
   With(NoBody, "title", Str(<<" ">>)),
   With(NoBody, "description", Str(<<"b">>)),
   With(NoBody, "priority", Str(High)),
   With(NoBody, "priority", Str(<<"u", "r", "g", "e", "n", "t">>)),
   With(NoBody, "dueDate", Str(IsoDate)),
   With(NoBody, "completed", Bool(TRUE)),
   With(NoBody, "completed", Bool(FALSE)),
   With(With(NoBody, "title", Str(<<"a", "b">>)), "completed", Bool(FALSE)),
   With(NoBody, "id", Num(2)),
   With(With(NoBody, "title", Str(<<"a", "b">>)), "id", Num(2))}

\* the bodies of PATCH /tasks/:id/complete: completed missing, a boolean, a
\* string that spells a boolean, a string that does not, and with an id
CompleteBodies ==
  {NoBody, With(With(NoBody, "completed", Bool(FALSE)), "id", Num(2))}
    \cup {With(NoBody, "completed", v) :
            v \in {Bool(TRUE), Bool(FALSE), Str(True), Str(<<"0">>), Str(<<"y", "e", "s">>)}}

\* the bodies of the PUT requests sent at once: a field only one of them
\* sets, a field both set to different values
RaceBodies ==
  {With(NoBody, "title", Str(<<"a">>)),
   With(With(NoBody, "title", Str(<<"b">>)), "priority", Str(High))}

\* the :id of a path: ids the sequence hands out, zero, not a number
IdValues == {Str(<<"1">>), Str(<<"2">>), Str(<<"0">>), Str(<<"x">>)}

\* the requests that compare statement texts: every field missing
\* and with two or three values
SqlQueries ==
  {NoQuery}
    \cup {[NoQuery EXCEPT !.priority = v] : v \in {Str(<<>>), Str(High), Str(Low)}}
    \cup {[NoQuery EXCEPT !.search = v] : v \in {Str(<<"B">>), Str(Injection)}}
    \cup {[NoQuery EXCEPT !.priority = Str(High), !.completed = Str(True), !.search = Str(<<"B">>)],
          [NoQuery EXCEPT !.priority = Str(Low), !.completed = Str(False), !.search = Str(Injection)]}

SqlCreateBodies == {BaseBody, With(BaseBody, "title", Str(Injection))}

SqlUpdateBodies ==
  {With(NoBody, "title", Str(<<"a", "b">>)),
   With(NoBody, "title", Str(Injection)),
   With(NoBody, "completed", Bool(TRUE)),
   With(NoBody, "completed", Bool(FALSE))}

SqlIds == {Str(<<"1">>), Str(<<"2">>)}

\* the requests sent to a database that may fail
\* ids in and not in the table, zero, not a number, beyond the range of
\* the column type integer
FaultIds ==
  {Str(<<"1">>), Str(<<"2">>), Str(<<"0">>), Str(<<"x">>),
   Str(<<"2", "1", "4", "7", "4", "8", "3", "6", "4", "8">>)}

FaultUpdateBodies ==
  {NoBody, With(NoBody, "id", Num(2)), With(NoBody, "completed", Bool(FALSE)),
   With(NoBody, "title", Str(<<" ">>))}

\* the errors handed to the error handler: every name, code and statusCode
\* the handler tests for, and one it does not know
Errors ==
  {Error(name, code, statusCode, "boom", details) :
     name \in {"Error", "ValidationError", "CastError"},
     code \in {"", "23505", "23503", "23502", "42P01", "ECONNREFUSED", "57P01"},
     statusCode \in {Undef, Num(0), Num(422), Num(500)},
     details \in {NoDetails, Details(<<"title is required">>)}}

(***************************************************************************)
(* Specifications.  The clients send one request at a time.  The           *)
(* variables created, updates and prev record what happened; no handler    *)
(* reads them.                                                             *)
(***************************************************************************)
\* has the handler run an UPDATE that changed a row
Updated == /\ resp'.status = 200
           /\ req'.op \in {"PUT /tasks/:id", "PATCH /tasks/:id/complete"}
           /\ tasks' # tasks

\* the bookkeeping of a step
Record ==
  /\ created' = (created \cap tasks') \cup (IF resp'.status = 201 THEN {resp'.task} ELSE {})
  /\ updates' = IF Updated THEN updates + 1 ELSE updates
  /\ deleted' = IF resp'.status = 204 THEN deleted \cup {req'.id} ELSE deleted
  /\ UNCHANGED <<prev, nodeEnv, fault, thrown, probe, inflight, walk, deploy>>

\* the bookkeeping of a step of the specification of the statement texts
RecordTexts ==
  /\ UNCHANGED created
  /\ updates' = IF Updated THEN updates + 1 ELSE updates
  /\ prev' = IF Idle THEN prev
             ELSE [req |-> req, texts |-> [i \in 1..Len(issued) |-> issued[i].text]]
  /\ UNCHANGED <<deleted, nodeEnv, fault, thrown, probe, inflight, walk, deploy>>

\* the clients send at most MaxUpdates updates that change a row
MayUpdate == updates < MaxUpdates

\* the CRUD endpoints
Next ==
  \/ Tick /\ Record
  \/ (\E b \in SeedBodies : CreateTask(b)) /\ Record
  \/ (\E id \in IdValues : GetTask(id)) /\ Record
  \/ (\E id \in IdValues, b \in UpdateBodies : MayUpdate /\ UpdateTask(id, b)) /\ Record
  \/ (\E id \in IdValues : DeleteTask(id)) /\ Record
  \/ (\E id \in IdValues, b \in CompleteBodies : MayUpdate /\ CompleteTask(id, b)) /\ Record
  \/ Reply /\ Record

Spec == Init /\ [][Next]_vars

\* POST /tasks under every value of the validation
NextCreate ==
  \/ (\E b \in CreateBodies : CreateTask(b)) /\ Record
  \/ Reply /\ Record

SpecCreate == Init /\ [][NextCreate]_vars

\* the list endpoint over the tables the list bodies build
NextList ==
  \/ Tick /\ Record
  \/ (\E b \in ListBodies : CreateTask(b)) /\ Record
  \/ (\E q \in ListQueries : ListTasks(q)) /\ Record
  \/ Reply /\ Record

SpecList == Init /\ [][NextList]_vars

\* every endpoint, each request after the other
NextSql ==
  \/ (\E q \in SqlQueries : ListTasks(q)) /\ RecordTexts
  \/ (\E b \in SqlCreateBodies : CreateTask(b)) /\ RecordTexts
  \/ (\E id \in SqlIds : GetTask(id)) /\ RecordTexts
  \/ (\E id \in SqlIds, b \in SqlUpdateBodies : MayUpdate /\ UpdateTask(id, b)) /\ RecordTexts
  \/ (\E id \in SqlIds : DeleteTask(id)) /\ RecordTexts
  \/ (\E id \in SqlIds, b \in {With(NoBody, "completed", Bool(TRUE)), With(NoBody, "completed", Bool(FALSE))} :
        MayUpdate /\ CompleteTask(id, b)) /\ RecordTexts
  \/ Reply /\ RecordTexts

SpecSql == Init /\ [][NextSql]_vars

\* the bookkeeping of a step of the specification of failures: a failure
\* hits one request and is gone when the response is out
RecordFault ==
  /\ created' = (created \cap tasks') \cup (IF resp'.status = 201 THEN {resp'.task} ELSE {})
  /\ updates' = IF Updated THEN updates + 1 ELSE updates
  /\ deleted' = IF resp'.status = 204 THEN deleted \cup {req'.id} ELSE deleted
  /\ fault' = IF Idle THEN fault ELSE NoFault
  /\ UNCHANGED <<prev, nodeEnv, thrown, probe, inflight, walk, deploy>>

\* every endpoint, with a database that may fail, and the unmatched routes
NextFault ==
  \/ Tick /\ RecordFault
  \* the first or the second query of the next request fails: connection
  \* refused, administrator shutdown, undefined table
  \/ \E k \in {1, 2}, code \in {"ECONNREFUSED", "57P01", "42P01"} : Break(k, code)
  \/ (\E q \in {NoQuery, [NoQuery EXCEPT !.limit = Str(<<"1">>)]} : ListTasks(q)) /\ RecordFault
  \/ (\E b \in SeedBodies : CreateTask(b)) /\ RecordFault
  \/ (\E id \in FaultIds : GetTask(id)) /\ RecordFault
  \/ (\E id \in FaultIds, b \in FaultUpdateBodies : MayUpdate /\ UpdateTask(id, b)) /\ RecordFault
  \/ (\E id \in FaultIds : DeleteTask(id)) /\ RecordFault
  \/ (\E id \in FaultIds, b \in {NoBody, With(NoBody, "completed", Bool(FALSE))} : MayUpdate /\ CompleteTask(id, b)) /\ RecordFault
  \/ NoRoute /\ RecordFault
  \/ Reply /\ RecordFault

SpecFault == Init /\ [][NextFault]_vars

\* the error handler alone, under every NODE_ENV: as deployed, on a
\* developer's machine, under jest, not set
NextError ==
  \/ (\E err \in Errors : HandleError(err)) /\ UNCHANGED <<created, updates, prev, deleted, nodeEnv, fault, probe, inflight, walk, deploy>>
  \/ Reply /\ thrown' = NoError /\ UNCHANGED <<created, updates, prev, deleted, nodeEnv, fault, probe, inflight, walk, deploy>>

InitError == Start /\ nodeEnv \in {"production", "development", "test", ""}

SpecError == InitError /\ [][NextError]_vars

\* the health routes beside the routes that fill and empty the table
NextHealth ==
  \/ Tick /\ Record
  \/ (\E b \in SeedBodies : CreateTask(b)) /\ Record
  \/ (\E id \in SqlIds : DeleteTask(id)) /\ Record
  \/ (\E outcome \in {"row", "no row", "rejected"} : Health(outcome))
       /\ UNCHANGED <<created, updates, prev, deleted, nodeEnv, fault, thrown, inflight, walk, deploy>>
  \/ (\E outcome \in {"row", "no row", "rejected"} : Ready(outcome))
       /\ UNCHANGED <<created, updates, prev, deleted, nodeEnv, fault, thrown, inflight, walk, deploy>>
  \/ Live /\ UNCHANGED <<created, updates, prev, deleted, nodeEnv, fault, thrown, inflight, walk, deploy>>
  \/ Reply /\ probe' = ""
       /\ UNCHANGED <<created, updates, prev, deleted, nodeEnv, fault, thrown, inflight, walk, deploy>>

SpecHealth == Init /\ [][NextHealth]_vars

\* the clients send their requests at once, the writes on the first task:
\* the database runs the statements in any order that keeps the order of
\* each handler
NextRace ==
  \/ (\E c \in Clients, b \in SeedBodies : CreateCall(c, b))
       /\ UNCHANGED <<now, req, resp, pre, created, updates, prev, deleted, nodeEnv, fault, thrown, probe, walk, deploy>>
  \/ (\E c \in Clients : DeleteCall(c, Str(<<"1">>)))
       /\ UNCHANGED <<now, req, resp, pre, created, updates, prev, deleted, nodeEnv, fault, thrown, probe, walk, deploy>>
  \/ (\E c \in Clients, b \in RaceBodies : PutCheck(c, Str(<<"1">>), b))
       /\ UNCHANGED <<now, req, resp, pre, created, updates, prev, deleted, nodeEnv, fault, thrown, probe, walk, deploy>>
  \/ (\E c \in Clients : PutUpdate(c))
       /\ UNCHANGED <<now, req, resp, pre, created, updates, prev, deleted, nodeEnv, fault, thrown, probe, walk, deploy>>
  \/ (\E c \in Clients : ListData(c, [NoQuery EXCEPT !.limit = Str(<<"1">>)]))
       /\ UNCHANGED <<now, req, resp, pre, created, updates, prev, deleted, nodeEnv, fault, thrown, probe, walk, deploy>>
  \/ (\E c \in Clients : ListCount(c))
       /\ UNCHANGED <<now, req, resp, pre, created, updates, prev, deleted, nodeEnv, fault, thrown, probe, walk, deploy>>
  \/ Settle
       /\ UNCHANGED <<now, req, resp, pre, created, updates, prev, deleted, nodeEnv, fault, thrown, probe, walk, deploy>>

SpecRace == Init /\ [][NextRace]_vars

\* the list read page by page, no write between the first and the last page
NextPages ==
  \/ Tick /\ walk = NoWalk
       /\ UNCHANGED <<created, updates, prev, deleted, nodeEnv, fault, thrown, probe, inflight, walk, deploy>>
  \/ (\E b \in SeedBodies \cup {With(FullBody, "priority", Str(High))} : CreateTask(b)) /\ walk = NoWalk
       /\ UNCHANGED <<created, updates, prev, deleted, nodeEnv, fault, thrown, probe, inflight, walk, deploy>>
  \/ (\E id \in SqlIds : DeleteTask(id)) /\ walk = NoWalk
       /\ UNCHANGED <<created, updates, prev, deleted, nodeEnv, fault, thrown, probe, inflight, walk, deploy>>
  \/ (\E q \in {[NoQuery EXCEPT !.limit = Str(<<"1">>)], [NoQuery EXCEPT !.limit = Str(<<"2">>)],
                 [NoQuery EXCEPT !.limit = Str(<<"1">>), !.priority = Str(High)]} : FirstPage(q))
       /\ UNCHANGED <<created, updates, prev, deleted, nodeEnv, fault, thrown, probe, inflight, deploy>>
  \/ NextPage
       /\ UNCHANGED <<created, updates, prev, deleted, nodeEnv, fault, thrown, probe, inflight, deploy>>
  \/ ReplyPage
       /\ UNCHANGED <<created, updates, prev, deleted, nodeEnv, fault, thrown, probe, inflight, deploy>>

SpecPages == Init /\ [][NextPages]_vars

\* runs of deploy.sh, one after the other
NextDeploy ==
  \/ (\E environment \in {"staging", "production", "qa"}, tag \in {"v1", "v2"}, ci \in BOOLEAN :
        main(environment, tag, ci))
       /\ UNCHANGED <<tasks, seq, now, req, resp, issued, pre, created, updates, prev, deleted, nodeEnv, fault, thrown,
                     probe, inflight, walk>>
  \/ (\E ok \in BOOLEAN : check_prerequisites(ok))
       /\ UNCHANGED <<tasks, seq, now, req, resp, issued, pre, created, updates, prev, deleted, nodeEnv, fault, thrown,
                     probe, inflight, walk>>
  \/ create_environment_file
       /\ UNCHANGED <<tasks, seq, now, req, resp, issued, pre, created, updates, prev, deleted, nodeEnv, fault, thrown,
                     probe, inflight, walk>>
  \/ (\E ok \in BOOLEAN : Pull(ok))
       /\ UNCHANGED <<tasks, seq, now, req, resp, issued, pre, created, updates, prev, deleted, nodeEnv, fault, thrown,
                     probe, inflight, walk>>
  \/ (\E ok \in BOOLEAN : ScaleDown(ok))
       /\ UNCHANGED <<tasks, seq, now, req, resp, issued, pre, created, updates, prev, deleted, nodeEnv, fault, thrown,
                     probe, inflight, walk>>
  \/ (\E ok \in BOOLEAN : ScaleUp(ok))
       /\ UNCHANGED <<tasks, seq, now, req, resp, issued, pre, created, updates, prev, deleted, nodeEnv, fault, thrown,
                     probe, inflight, walk>>
  \/ (\E ok \in BOOLEAN : Up(ok))
       /\ UNCHANGED <<tasks, seq, now, req, resp, issued, pre, created, updates, prev, deleted, nodeEnv, fault, thrown,
                     probe, inflight, walk>>
  \/ (\E ok \in BOOLEAN : wait_for_deployment(ok))
       /\ UNCHANGED <<tasks, seq, now, req, resp, issued, pre, created, updates, prev, deleted, nodeEnv, fault, thrown,
                     probe, inflight, walk>>
  \/ (\E ok \in BOOLEAN : run_health_checks(ok))
       /\ UNCHANGED <<tasks, seq, now, req, resp, issued, pre, created, updates, prev, deleted, nodeEnv, fault, thrown,
                     probe, inflight, walk>>
  \/ (\E ok \in BOOLEAN : run_smoke_tests(ok))
       /\ UNCHANGED <<tasks, seq, now, req, resp, issued, pre, created, updates, prev, deleted, nodeEnv, fault, thrown,
                     probe, inflight, walk>>

SpecDeploy == Init /\ [][NextDeploy]_vars

(***************************************************************************)
(* Properties of GET /tasks.                                               *)
(***************************************************************************)
\* the handler of GET /tasks has answered 200
ListOk == req.op = "GET /tasks" /\ resp.status = 200

\* the client sent the field
Present(v) == v.ty # "undefined"

\* t is a substring of s
Contains(s, t) == \E i \in 0..(Len(s) - Len(t)) : \A j \in 1..Len(t) : s[i + j] = t[j]

\* the row satisfies every filter the query string holds: priority equal,
\* completed equal, search a case-insensitive substring of title or description
Satisfies(row, q) ==
  /\ Present(q.priority) => row.priority = q.priority
  /\ Present(q.completed) => row.completed = Bool(q.completed.s = True)
  /\ Present(q.search) =>
       \/ Contains(Lower(row.title.s), Lower(q.search.s))
       \/ row.description.ty = "string" /\ Contains(Lower(row.description.s), Lower(q.search.s))

\* C1: every task GET /tasks returns satisfies every filter of the request,
\* and pagination.total is the number of rows of the table that satisfy them
C1_FiltersAndTotal ==
  ListOk =>
    /\ \A i \in 1..Len(resp.tasks) : Satisfies(resp.tasks[i], req.q)
    /\ resp.pagination.total = Num(Cardinality({r \in pre : Satisfies(r, req.q)}))

\* C2: in every 200 response of GET /tasks, pages is ceil(total / limit),
\* that is the least number of pages of limit rows that hold total rows,
\* and the page holds at most limit tasks
C2_PagesAndLength ==
  ListOk =>
    /\ resp.pagination.limit.ty = "number"
    /\ resp.pagination.pages.ty = "number"
    /\ resp.pagination.limit.n > 0
    /\ resp.pagination.pages.n * resp.pagination.limit.n >= resp.pagination.total.n
    /\ (resp.pagination.pages.n - 1) * resp.pagination.limit.n < resp.pagination.total.n
    /\ Len(resp.tasks) <= resp.pagination.limit.n

\* the row is selected by the filters of the query string, as the database
\* compares: an empty priority or search is no filter, search is a pattern
Selected(row, q) ==
  /\ Truthy(q.priority) => row.priority = q.priority
  /\ Present(q.completed) => row.completed = Bool(q.completed.s = True)
  /\ Truthy(q.search) =>
       \/ ILike(row.title, <<"%">> \o q.search.s \o <<"%">>)
       \/ ILike(row.description, <<"%">> \o q.search.s \o <<"%">>)

\* the elements of rows at the positions from..to, counted from 0
Positions(rows, from, to) ==
  LET lo == IF from < 0 THEN 0 ELSE from
      hi == IF to >= Len(rows) THEN Len(rows) - 1 ELSE to
  IN [i \in 1..(hi - lo + 1) |-> rows[lo + i]]

\* C3: the page of GET /tasks is the selected rows in an order of descending
\* creation time, cut to the positions (page-1)*limit .. page*limit-1; page
\* is 1 and limit is 10 when the request has none
C3_PageIsSlice ==
  ListOk =>
    /\ ~Present(req.q.page) => resp.pagination.page = Num(1)
    /\ ~Present(req.q.limit) => resp.pagination.limit = Num(10)
    /\ \E ord \in Orders({r \in pre : Selected(r, req.q)}) :
         resp.tasks = Positions(ord, (resp.pagination.page.n - 1) * resp.pagination.limit.n,
                                resp.pagination.page.n * resp.pagination.limit.n - 1)

\* a reachable state of C3: the second page of one row, of a table of two
\* rows created at different times, holds the older row
C3_Witness ==
  /\ ListOk
  /\ resp.pagination.page = Num(2)
  /\ resp.pagination.limit = Num(1)
  /\ Cardinality(pre) = 2
  /\ Len(resp.tasks) = 1
  /\ \E r \in pre : r.created_at > resp.tasks[1].created_at

\* the numbers of the placeholders of a text, in the order of the text
RECURSIVE PlaceholderSeq(_)
PlaceholderSeq(text) ==
  IF text = <<>> THEN <<>>
  ELSE IF Head(text).ph THEN <<Head(text).n>> \o PlaceholderSeq(Tail(text))
  ELSE PlaceholderSeq(Tail(text))

\* the placeholders of the statement are $1 .. $n in this order, n being
\* the number of its parameters
NumberedInOrder(stmt) == PlaceholderSeq(stmt.text) = [i \in 1..Len(stmt.params) |-> i]

\* the positions of the predicate that starts with the literal s
PredicateAt(stmt, s) == {i \in DOMAIN stmt.text : ~stmt.text[i].ph /\ stmt.text[i].s = s}

\* the predicates of the statement come in the order priority, completed, search
PredicateOrder(stmt) ==
  /\ \A i \in PredicateAt(stmt, " AND priority = "), j \in PredicateAt(stmt, " AND completed = ") : i < j
  /\ \A i \in PredicateAt(stmt, " AND completed = "), j \in PredicateAt(stmt, " AND (title ILIKE ") : i < j
  /\ \A i \in PredicateAt(stmt, " AND priority = "), j \in PredicateAt(stmt, " AND (title ILIKE ") : i < j

\* C4: the count query of GET /tasks has the predicates of the data query,
\* in the same order priority, completed, search and with the same values:
\* the parameters of the data query are those of the count query followed
\* by limit and offset, and each query numbers its placeholders 1..n
C4_CountMirrorsData ==
  (req.op = "GET /tasks" /\ Len(issued) = 2) =>
    LET data == issued[1]
        count == issued[2]
    IN /\ Len(data.text) = Len(count.text) + 4
       /\ Len(data.params) = Len(count.params) + 2
       /\ Tail(count.text) = SubSeq(data.text, 2, Len(count.text))
       /\ count.params = SubSeq(data.params, 1, Len(count.params))
       /\ data.params[Len(data.params) - 1] = parseInt(LimitOf(req.q))
       /\ data.params[Len(data.params)] = parseInt(offset(req.q))
       /\ PredicateOrder(data) /\ PredicateOrder(count)
       /\ NumberedInOrder(data) /\ NumberedInOrder(count)
       /\ Truthy(req.q.priority) <=> PredicateAt(count, " AND priority = ") # {}
       /\ Present(req.q.completed) <=> PredicateAt(count, " AND completed = ") # {}
       /\ Truthy(req.q.search) <=> PredicateAt(count, " AND (title ILIKE ") # {}

\* a reachable state of C4: both queries issued with all three filters
C4_Witness ==
  /\ req.op = "GET /tasks"
  /\ Len(issued) = 2
  /\ Len(issued[2].params) = 4
  /\ Len(issued[1].params) = 6
  /\ resp.status = 200

\* C6: whatever page and limit the client sends, the value bound to LIMIT
\* is a positive integer and the value bound to OFFSET a non-negative one
C6_LimitOffsetClamped ==
  (req.op = "GET /tasks" /\ Len(issued) >= 1) =>
    LET params == issued[1].params
    IN /\ params[Len(params) - 1].ty = "number"
       /\ params[Len(params) - 1].n > 0
       /\ params[Len(params)].ty = "number"
       /\ params[Len(params)].n >= 0

(***************************************************************************)
(* Properties of the statement texts.                                      *)
(***************************************************************************)
QueryFields == {"page", "limit", "priority", "completed", "search"}

\* two requests to one endpoint with the same inputs present
SameInputs(r1, r2) ==
  /\ r1.op = r2.op
  /\ Present(r1.id) = Present(r2.id)
  /\ \A f \in QueryFields : Present(r1.q[f]) = Present(r2.q[f])
  /\ \A f \in BodyFields : Present(r1.body[f]) = Present(r2.body[f])

\* two requests to one endpoint with the same inputs present, an empty
\* priority and an empty search counting as not present
SameInputsNonEmpty(r1, r2) ==
  /\ SameInputs(r1, r2)
  /\ Truthy(r1.q.priority) = Truthy(r2.q.priority)
  /\ Truthy(r1.q.search) = Truthy(r2.q.search)

\* the texts of the statements of the request in progress
IssuedTexts == [i \in 1..Len(issued) |-> issued[i].text]

\* statement by statement, as far as both requests got, the texts are equal
TextsAgree(t1, t2) == \A i \in DOMAIN t1 \cap DOMAIN t2 : t1[i] = t2[i]

\* a create whose title is SQL text inserts one row and leaves the others
InjectionIsData ==
  (req.op = "POST /tasks" /\ req.body.title = Str(Injection)) =>
    /\ resp.status = 201
    /\ resp.task.title = Str(Injection)
    /\ resp.task \notin pre
    /\ tasks = pre \cup {resp.task}

\* C5 as stated: two requests to one endpoint that differ only in the values
\* of their inputs issue the same statement texts, and a create whose title
\* is SQL text inserts one row and leaves the other rows in place
C5_TextByPresence ==
  /\ (~Idle /\ SameInputs(prev.req, req)) => TextsAgree(prev.texts, IssuedTexts)
  /\ InjectionIsData

\* C5 amended: the same, an empty priority or search counting as missing
C5_TextByNonEmptyPresence ==
  /\ (~Idle /\ SameInputsNonEmpty(prev.req, req)) => TextsAgree(prev.texts, IssuedTexts)
  /\ InjectionIsData

\* a reachable state of C5: two list requests that differ in the value of
\* search only, the later one searching for SQL text, both with two statements
C5_Witness ==
  /\ req.op = "GET /tasks"
  /\ prev.req.op = "GET /tasks"
  /\ prev.req.q.search = Str(<<"B">>)
  /\ req.q.search = Str(Injection)
  /\ SameInputsNonEmpty(prev.req, req)
  /\ Len(prev.texts) = 2
  /\ Len(issued) = 2

(***************************************************************************)
(* Properties of POST /tasks and GET /tasks/:id.                           *)
(***************************************************************************)
\* C7: GET /tasks/:id with the id of a task that POST /tasks answered and
\* that was not changed since answers 200 with that task, field by field
C7_CreateThenGet ==
  (req.op = "GET /tasks/:id" /\ \E t \in created : Str(ToDecimal(t.id)) = req.id) =>
    /\ resp.status = 200
    /\ resp.task \in created
    /\ Str(ToDecimal(resp.task.id)) = req.id

\* a reachable state of C7: the fetch of a created task out of a table of two
C7_Witness ==
  /\ req.op = "GET /tasks/:id"
  /\ resp.status = 200
  /\ resp.task \in created
  /\ Cardinality(tasks) = 2

\* the body holds a title and nothing else
OnlyTitle(b) == \A f \in BodyFields \ {"title"} : ~Present(b[f])

\* a title of 1 to 255 characters
ValidTitle(v) == v.ty = "string" /\ Len(Trim(v.s)) >= 1 /\ Len(Trim(v.s)) <= 255

\* C8: POST /tasks with a valid title alone answers 201; a task answered
\* with 201 is stored, with every optional field as supplied and, where the
\* body has none, priority medium, completed false, description and dueDate null
C8_CreateDefaults ==
  req.op = "POST /tasks" =>
    /\ (OnlyTitle(req.body) /\ ValidTitle(req.body.title)) => resp.status = 201
    /\ resp.status = 201 =>
         /\ resp.task \in tasks
         /\ resp.task \notin pre
         /\ resp.task.description = (IF Present(req.body.description) THEN req.body.description ELSE Null)
         /\ resp.task.priority = (IF Present(req.body.priority) THEN req.body.priority ELSE Str(Medium))
         /\ resp.task.due_date = (IF Present(req.body.dueDate) THEN PgTimestamp(req.body.dueDate) ELSE Null)
         /\ resp.task.completed = (IF Present(req.body.completed) THEN req.body.completed ELSE Bool(FALSE))

\* a reachable state of C8: the create of a body that holds a title only
C8_Witness ==
  /\ req.op = "POST /tasks"
  /\ req.body = BaseBody
  /\ resp.status = 201
  /\ resp.task.priority = Str(Medium)
  /\ resp.task.completed = Bool(FALSE)

\* the ISO dates among the inputs
IsoDates == {IsoDate}

\* the body is one C9 names: no title, an empty or too long one, a too long
\* description, an unknown priority, a dueDate that is no ISO date
Refused(b) ==
  \/ ~Present(b.title)
  \/ b.title.ty = "string" /\ (b.title.s = <<>> \/ Len(b.title.s) > 255)
  \/ Present(b.description) /\ Len(b.description.s) > 1000
  \/ Present(b.priority) /\ b.priority.s \notin {Low, Medium, High}
  \/ Present(b.dueDate) /\ b.dueDate.s \notin IsoDates

PutOk == req.op = "PUT /tasks/:id" /\ resp.status = 200

\* the column that holds the field of a body
ColumnOf(f) == IF f = "dueDate" THEN "due_date" ELSE f

\* the value of the field as the table holds it
Stored(f, v) == IF f = "dueDate" THEN PgTimestamp(v) ELSE v

\* the value of the field as the table holds it, a title without the white
\* space around it
StoredTrimmed(f, v) == IF f = "title" THEN Str(Trim(v.s)) ELSE Stored(f, v)

\* the update changed row old into row new, the fields of the body to the
\* values given by value, and nothing else but updated_at
FrameOf(old, new, value(_, _)) ==
  /\ Str(ToDecimal(old.id)) = req.id
  /\ new.id = old.id
  /\ new.created_at = old.created_at
  /\ \A f \in BodyFields :
       new[ColumnOf(f)] = (IF Present(req.body[f]) THEN value(f, req.body[f]) ELSE old[ColumnOf(f)])
  /\ tasks \ {new} = pre \ {old}
  /\ resp.task = new

\* C10 as stated: a successful PUT sets the fields of its body to the given
\* values and leaves the other fields but updatedAt, and the other tasks, alone
C10_UpdateFrame ==
  PutOk => \E old \in pre, new \in tasks : FrameOf(old, new, Stored)

\* C10 amended: the same, the title being stored without the white space
\* around it
C10_UpdateFrameTrimmed ==
  PutOk => \E old \in pre, new \in tasks : FrameOf(old, new, StoredTrimmed)

\* a reachable state of C10: a title with white space around it put on one
\* of two tasks
C10_Witness ==
  /\ PutOk
  /\ req.body.title = Str(<<" ", "c", " ">>)
  /\ Cardinality(tasks) = 2
  /\ resp.task.title = Str(<<"c">>)
  /\ tasks # pre

(***************************************************************************)
(* Properties of PUT /tasks/:id without fields.                            *)
(***************************************************************************)
\* the text writes a positive integer
IsPositiveInteger(s) == s # <<>> /\ s[1] # "0" /\ \A i \in 1..Len(s) : s[i] \in {Digits[j] : j \in 1..10}

\* the path names a task of the table as it was
Found == \E r \in pre : Str(ToDecimal(r.id)) = req.id

\* the body holds none of the updatable fields
NoFields(b) == \A f \in BodyFields : ~Present(b[f])

\* the body holds no key at all
Empty(b) == \A f \in DOMAIN b : ~Present(b[f])

\* the existence query of the PUT in progress was rejected
ExistenceFailed == fault.at = 1 \/ BeyondInt4(req.id.s)

\* the answers of a PUT that runs its existence check: an error of the
\* server when the query fails, 404 for no row, else 400 'No fields to update'
NoFieldsAnswer ==
  /\ tasks = pre
  /\ IF ExistenceFailed THEN resp.status >= 500
     ELSE IF Found THEN resp.status = 400 /\ resp.error = "No fields to update"
     ELSE resp.status = 404

\* C11 as stated: PUT /tasks/:id with a body that holds none of the updatable
\* fields never modifies the table; it answers 400 'No fields to update' when
\* the id exists, 404 when it does not, an error status when the existence
\* query fails
C11_NoFieldsRejected ==
  (req.op = "PUT /tasks/:id" /\ IsPositiveInteger(req.id.s) /\ NoFields(req.body)) => NoFieldsAnswer

\* C11 amended: the same of a body without any key; a body that holds a key
\* the schema does not know, and none of the updatable fields, is answered
\* 400 'Validation Error' without a query, the table unchanged
C11_EmptyBodyRejected ==
  (req.op = "PUT /tasks/:id" /\ IsPositiveInteger(req.id.s) /\ NoFields(req.body)) =>
    IF Empty(req.body) THEN NoFieldsAnswer
    ELSE resp.status = 400 /\ resp.error = "Validation Error" /\ issued = <<>> /\ tasks = pre

\* a reachable state of C11: an empty body put on a task that was stored
\* before the clock advanced, answered 400 'No fields to update'
C11_Witness ==
  /\ req.op = "PUT /tasks/:id"
  /\ Empty(req.body)
  /\ Found
  /\ resp.error = "No fields to update"
  /\ \E r \in tasks : Str(ToDecimal(r.id)) = req.id /\ r.updated_at < now

(***************************************************************************)
(* Properties of DELETE /tasks/:id.                                        *)
(***************************************************************************)
\* the row of the table as it was that the path names
Named(id) == {r \in pre : Num(r.id) = PgInt(id)}

\* C12: once DELETE /tasks/:id has answered 204 for an id, every later
\* GET /tasks/:id for that id answers 404 'Task not found', also after later
\* creates: no stored task ever has such an id again; a delete answered 204
\* removes the task of that id and no other
C12_DeletedStaysGone ==
  /\ \A id \in deleted : \A t \in tasks : Num(t.id) # PgInt(id)
  /\ (req.op = "GET /tasks/:id" /\ req.id \in deleted) => resp = TaskNotFound
  /\ (req.op = "DELETE /tasks/:id" /\ resp.status = 204) =>
       /\ Cardinality(Named(req.id)) = 1
       /\ tasks = pre \ Named(req.id)

\* a reachable state of C12: the fetch of a deleted id, answered 404, after a
\* task was created since and while another task is stored
C12_Witness ==
  /\ req.op = "GET /tasks/:id"
  /\ req.id \in deleted
  /\ resp.status = 404
  /\ \E t \in tasks : Num(t.id).n > PgInt(req.id).n

\* a reachable state of C12: a delete answered 204 that left another task
C12_WitnessDelete ==
  /\ req.op = "DELETE /tasks/:id"
  /\ resp.status = 204
  /\ tasks # {}

(***************************************************************************)
(* Properties of the timestamps.                                           *)
(***************************************************************************)
\* a PUT or a PATCH has answered 200
Mutated == req.op \in {"PUT /tasks/:id", "PATCH /tasks/:id/complete"} /\ resp.status = 200

\* C13: every stored task has updatedAt >= createdAt; no request lowers the
\* updatedAt of a task; a created task has updatedAt = createdAt = the time
\* of its creation, and every successful PUT /tasks/:id and
\* PATCH /tasks/:id/complete sets the updatedAt of its task to the current time
C13_UpdatedAtMonotone ==
  /\ \A t \in tasks : t.updated_at >= t.created_at
  /\ \A old \in pre, new \in tasks : old.id = new.id => new.updated_at >= old.updated_at
  /\ (req.op = "POST /tasks" /\ resp.status = 201) =>
       resp.task \in tasks /\ resp.task.created_at = now /\ resp.task.updated_at = now
  /\ Mutated => resp.task \in tasks /\ resp.task.updated_at = now

\* a reachable state of C13: a PATCH answered 200 on a task created before
\* the clock advanced, its updatedAt now later than its createdAt
C13_Witness ==
  /\ req.op = "PATCH /tasks/:id/complete"
  /\ resp.status = 200
  /\ resp.task.updated_at > resp.task.created_at
  /\ \E old \in pre : old.id = resp.task.id /\ old.updated_at < resp.task.updated_at

(***************************************************************************)
(* Properties of id and createdAt.                                         *)
(***************************************************************************)
\* the request in progress is a PUT or a PATCH
Updating == req.op \in {"PUT /tasks/:id", "PATCH /tasks/:id/complete"}

\* C14: no two stored tasks share an id; a PUT or a PATCH, whatever its
\* body holds (an id included), leaves the ids of the table and the createdAt
\* of every task as they were
C14_IdentityKept ==
  /\ \A a, b \in tasks : a.id = b.id => a = b
  /\ Updating =>
       /\ {t.id : t \in tasks} = {t.id : t \in pre}
       /\ \A old \in pre, new \in tasks : new.id = old.id => new.created_at = old.created_at

\* a reachable state of C14: a PATCH whose body holds the id of another task,
\* answered 200 after the clock advanced, the table holding two tasks
C14_Witness ==
  /\ req.op = "PATCH /tasks/:id/complete"
  /\ Present(req.body.id)
  /\ resp.status = 200
  /\ Num(resp.task.id) # req.body.id
  /\ resp.task.created_at < now
  /\ tasks # pre
  /\ Cardinality(tasks) = 2

(***************************************************************************)
(* Properties of the :id of a path.                                        *)
(***************************************************************************)
\* the request in progress is one of the four that name a task
ById ==
  req.op \in {"GET /tasks/:id", "PUT /tasks/:id", "DELETE /tasks/:id", "PATCH /tasks/:id/complete"}

\* the body of the request in progress passes the validation of its route
BodyAccepted ==
  CASE req.op = "PUT /tasks/:id" ->
         /\ validateRequest(updateTaskSchema, SanitizeUpdate(req.body)) = <<>>
         /\ UpdateErrors(Str(<<"1">>), SanitizeUpdate(req.body)) = <<>>
    [] req.op = "PATCH /tasks/:id/complete" -> CompleteErrors(Str(<<"1">>), req.body) = <<>>
    [] OTHER -> TRUE

\* C15: of GET, PUT and DELETE /tasks/:id and PATCH /tasks/:id/complete, an
\* id that is not a positive integer is answered 400 'Validation Error' and no
\* statement is issued; an id that is a positive integer and not in the
\* table, on a request valid otherwise and a database that works, is answered
\* 404 'Task not found'; the table is unchanged in both cases
C15_IdAnswers ==
  ById =>
    /\ ~IsPositiveInteger(req.id.s) =>
         resp.status = 400 /\ resp.error = "Validation Error" /\ issued = <<>> /\ tasks = pre
    /\ (IsPositiveInteger(req.id.s) /\ ~Found /\ BodyAccepted /\ fault = NoFault) =>
         resp.status = 404 /\ resp.error = "Task not found" /\ tasks = pre

(***************************************************************************)
(* Properties of PATCH /tasks/:id/complete.                                *)
(***************************************************************************)
\* the columns a PATCH may change
PatchColumns == {"completed", "updated_at"}

\* the PATCH in progress answered 200 with the task of its path, completed
\* set to v, every other column but updated_at and every other task as
\* they were
Completed(v) ==
  /\ resp.status = 200
  /\ resp.task \in tasks
  /\ resp.task.completed = v
  /\ \E old \in pre :
       /\ Str(ToDecimal(old.id)) = req.id
       /\ \A c \in DOMAIN old \ PatchColumns : resp.task[c] = old[c]
       /\ tasks = (pre \ {old}) \cup {resp.task}

\* the PATCH in progress answered 400 and changed nothing
PatchRefused == resp.status = 400 /\ issued = <<>> /\ tasks = pre

\* the boolean a string spells
BooleanOf(s) == Bool(s \in {True, <<"1">>})

\* C16 as stated: PATCH /tasks/:id/complete with a boolean completed on an
\* existing task sets completed to that value, whatever it was before, and
\* leaves every other field but updatedAt and every other task unchanged;
\* a completed that is missing or not a boolean is answered 400 and nothing
\* changes
C16_CompleteFrame ==
  (req.op = "PATCH /tasks/:id/complete" /\ IsPositiveInteger(req.id.s)) =>
    IF req.body.completed.ty = "boolean" THEN Found => Completed(req.body.completed)
    ELSE PatchRefused

\* C16 amended: the same, and a completed that is one of the strings true,
\* false, 1, 0 is applied as the boolean it spells; a completed that is
\* missing or any other string is answered 400 and nothing changes
C16_CompleteFrameSpelled ==
  (req.op = "PATCH /tasks/:id/complete" /\ IsPositiveInteger(req.id.s)) =>
    IF req.body.completed.ty = "boolean" THEN Found => Completed(req.body.completed)
    ELSE IF req.body.completed.ty = "string" /\ IsBooleanStr(req.body.completed.s)
         THEN Found => Completed(BooleanOf(req.body.completed.s))
    ELSE PatchRefused

\* a reachable state of C16: a PATCH that sets completed to the value the
\* task holds already, one of two tasks, after the clock advanced
C16_Witness ==
  /\ req.op = "PATCH /tasks/:id/complete"
  /\ req.body.completed.ty = "boolean"
  /\ resp.status = 200
  /\ Cardinality(tasks) = 2
  /\ \E old \in pre : old.id = resp.task.id /\ old.completed = resp.task.completed
                       /\ old.updated_at < resp.task.updated_at

(***************************************************************************)
(* Properties of the error handler.                                        *)
(***************************************************************************)
\* the error handler has answered the error thrown
Handled == req.op = "next(err)"

\* a row of the table of signals: the status, and the error text where the
\* table names one ("" where it names none)
Signal(status, error) == [status |-> status, error |-> error]

\* the table of signals, read in its order; has tells whether an error
\* counts as having a statusCode
Table(err, has) ==
  IF err.name = "ValidationError" THEN Signal(400, "")
  ELSE IF err.name = "CastError" THEN Signal(400, "")
  ELSE IF err.code = "23505" THEN Signal(409, "Resource already exists")
  ELSE IF err.code = "23503" THEN Signal(400, "Referenced resource does not exist")
  ELSE IF err.code = "23502" THEN Signal(400, "Required field is missing")
  ELSE IF err.code = "42P01" THEN Signal(500, "Database table not found")
  ELSE IF err.code = "ECONNREFUSED" THEN Signal(503, "")
  ELSE IF has THEN Signal(err.statusCode.n, err.message)
  ELSE Signal(500, "Internal Server Error")

\* the response shows the row of the table
Shows(row) ==
  /\ resp.status = row.status
  /\ row.error # "" => resp.error = row.error
  /\ resp.statusCode = Num(resp.status)

\* C17 as stated: the error handler answers an error with the status, and
\* the error text where the table names one, of the first signal of the
\* table that the error matches, an error with a statusCode property with
\* that status and its own message, any other error with 500 'Internal
\* Server Error'; the HTTP status equals the statusCode field
C17_Classification ==
  Handled => Shows(Table(thrown, Present(thrown.statusCode)))

\* C17 amended: the same, where an error counts as having a statusCode only
\* if the value is truthy (not 0), and where, under NODE_ENV production, a
\* response of status 500 shows 'Internal Server Error' whatever the table or
\* the error's message says
C17_ClassificationShown ==
  Handled =>
    IF nodeEnv = "production" /\ Table(thrown, Truthy(thrown.statusCode)).status = 500
    THEN Shows(Signal(500, "Internal Server Error"))
    ELSE Shows(Table(thrown, Truthy(thrown.statusCode)))

\* a reachable state of C17: an error that matches two signals, the code of
\* an undefined table and a statusCode, answered by the earlier one
C17_Witness ==
  /\ Handled
  /\ thrown.code = "42P01"
  /\ thrown.statusCode = Num(422)
  /\ nodeEnv = "test"
  /\ resp.status = 500
  /\ resp.error = "Database table not found"

\* C18: whenever NODE_ENV is not development, a response of status 500 of
\* the error handler has the error text 'Internal Server Error', no details
\* and no stack, whatever the message, the code or the statusCode of the error
C18_Suppressed ==
  (Handled /\ nodeEnv # "development" /\ resp.status = 500) =>
    /\ resp.error = "Internal Server Error"
    /\ "details" \notin resp.keys
    /\ "stack" \notin resp.keys

(***************************************************************************)
(* Properties of the shape of the error responses.                         *)
(***************************************************************************)
\* C19: every response of status 400 or above, of any endpoint and cause,
\* has a body with the fields error, statusCode, timestamp, path and method
C19_ErrorShape ==
  resp.status >= 400 => {"error", "statusCode", "timestamp", "path", "method"} \subseteq resp.keys

(***************************************************************************)
(* Properties of GET /tasks over a database that fails.                    *)
(***************************************************************************)
\* the response is an error of the server and holds no tasks
ServerError == resp.status >= 500 /\ resp.keys \cap {"tasks", "pagination"} = {} /\ resp.tasks = <<>>

\* C20: when the data query of GET /tasks fails the response is an error
\* status and the data query is the only statement issued; when the count
\* query fails the response is an error status, never an envelope with the
\* rows of the data query, and each query was issued once
C20_ListFailure ==
  req.op = "GET /tasks" =>
    /\ fault.at = 1 => ServerError /\ issued = <<query(req.q)>>
    /\ fault.at = 2 => ServerError /\ issued = <<query(req.q), countQuery(req.q)>>

\* a reachable state of C20: the count query fails after the data query
\* has read a table of two tasks
C20_Witness ==
  /\ req.op = "GET /tasks"
  /\ fault.at = 2
  /\ Cardinality(tasks) = 2
  /\ resp.status = 503
  /\ Len(issued) = 2

(***************************************************************************)
(* Properties of the health routes.                                        *)
(***************************************************************************)
\* C21: GET /health answers 200, status healthy, services.database connected
\* when its probe succeeds (resolves with its row), and 503, status
\* unhealthy, services.database disconnected when the probe fails (is
\* rejected); GET /health/ready answers 200 'ready' exactly when the probe
\* returns a row, else 503 'not ready'; GET /health/live answers 200 'alive'
\* and issues no query, whatever the table holds
C21_Health ==
  /\ req.op = "GET /health" =>
       /\ probe = "row" => resp.status = 200 /\ resp.state = "healthy" /\ resp.database = "connected"
       /\ probe = "rejected" =>
            resp.status = 503 /\ resp.state = "unhealthy" /\ resp.database = "disconnected"
  /\ req.op = "GET /health/ready" =>
       /\ resp.status = 200 <=> probe = "row"
       /\ resp.status = 200 => resp.state = "ready"
       /\ resp.status # 200 => resp.status = 503 /\ resp.state = "not ready"
  /\ req.op = "GET /health/live" => resp.status = 200 /\ resp.state = "alive" /\ issued = <<>>
  /\ req.op \in {"GET /health", "GET /health/ready", "GET /health/live"} => tasks = pre

\* a reachable state of C21: the probe of GET /health is rejected while
\* the table holds a task
C21_Witness ==
  /\ req.op = "GET /health"
  /\ probe = "rejected"
  /\ resp.status = 503
  /\ tasks # {}

(***************************************************************************)
(* Properties of requests in progress at once.                             *)
(***************************************************************************)
\* client c has the answer to a request of this kind
Answered(c, op) == inflight[c].op = op /\ inflight[c].pc = "done"

\* the table holds a row of this id
Holds(table, id) == \E t \in table : Num(t.id) = PgInt(id)

\* C22: of a PUT and a DELETE on the same id in progress at once, the DELETE
\* answered 204: if the DELETE statement ran before the existence check of
\* the PUT, the PUT answers 404; if it ran between the existence check and
\* the UPDATE, the UPDATE changes no row and returns none; once both have
\* answered the table holds no task of that id
C22_PutDeleteRace ==
  \A p, d \in Clients :
    (/\ Answered(p, "PUT /tasks/:id")
     /\ Answered(d, "DELETE /tasks/:id")
     /\ inflight[d].resp.status = 204
     /\ inflight[p].id = inflight[d].id) =>
      /\ inflight[d].last < inflight[p].first => inflight[p].resp = TaskNotFound
      /\ (inflight[p].first < inflight[d].last /\ inflight[d].last < inflight[p].last) =>
           /\ inflight[p].resp.task = NoTask
           /\ ~Holds(inflight[p].after, inflight[p].id)
      /\ ~Holds(tasks, inflight[p].id)

\* a reachable state of C22: the DELETE ran between the existence check and
\* the UPDATE of the PUT, and both have answered
C22_Witness ==
  \E p, d \in Clients :
    /\ Answered(p, "PUT /tasks/:id")
    /\ Answered(d, "DELETE /tasks/:id")
    /\ inflight[d].resp.status = 204
    /\ inflight[p].first < inflight[d].last
    /\ inflight[d].last < inflight[p].last

\* C24: every 200 response of PUT /tasks/:id carries the row of its task as
\* the table held it right after the UPDATE, whatever ran between the
\* statements of the PUT
C24_PutCarriesRow ==
  \A p \in Clients :
    (Answered(p, "PUT /tasks/:id") /\ inflight[p].resp.status = 200) =>
      /\ "task" \in inflight[p].resp.keys
      /\ inflight[p].resp.task \in inflight[p].after
      /\ Num(inflight[p].resp.task.id) = PgInt(inflight[p].id)

\* client c has run a statement that writes on the rows that exist
Wrote(c) ==
  \/ Answered(c, "DELETE /tasks/:id")
  \/ inflight[c].op = "PUT /tasks/:id" /\ inflight[c].last > inflight[c].first

\* C25: of two PUT requests in progress at once on one task, both answered
\* with the row, no other client writing: a field only one of them sets
\* holds the value of that request, a field both set holds the value of the
\* request whose UPDATE ran later
C25_NoLostUpdate ==
  \A p, q \in Clients :
    (/\ Answered(p, "PUT /tasks/:id") /\ Answered(q, "PUT /tasks/:id")
     /\ inflight[p].id = inflight[q].id
     /\ inflight[p].resp.task # NoTask /\ inflight[q].resp.task # NoTask
     /\ inflight[p].last < inflight[q].last
     /\ \A c \in Clients \ {p, q} : ~Wrote(c)) =>
      \E t \in tasks :
        /\ Num(t.id) = PgInt(inflight[p].id)
        /\ \A f \in BodyFields :
             /\ Present(inflight[q].body[f]) => t[ColumnOf(f)] = Stored(f, inflight[q].body[f])
             /\ (Present(inflight[p].body[f]) /\ ~Present(inflight[q].body[f])) =>
                  t[ColumnOf(f)] = Stored(f, inflight[p].body[f])

\* a reachable state of C25: both existence checks ran before either
\* UPDATE, the request that sets the priority wrote first, the other last
C25_Witness ==
  \E p, q \in Clients :
    /\ Answered(p, "PUT /tasks/:id") /\ Answered(q, "PUT /tasks/:id")
    /\ Present(inflight[p].body.priority) /\ ~Present(inflight[q].body.priority)
    /\ inflight[q].first < inflight[p].last
    /\ inflight[p].first < inflight[p].last
    /\ inflight[p].last < inflight[q].last
    /\ inflight[q].resp.task.priority = Str(High)
    /\ inflight[q].resp.task.title = Str(<<"a">>)

\* the clients whose DELETE on the id of client p's request is answered
Deleters(p) ==
  {q \in Clients : Answered(q, "DELETE /tasks/:id") /\ inflight[q].id = inflight[p].id}

\* C26: of the DELETE requests in progress at once on one id whose task
\* existed when one of them ran, exactly one answers 204 and every other
\* answers 404
C26_OneDeleteWins ==
  \A p \in Clients :
    (Answered(p, "DELETE /tasks/:id") /\ Holds(inflight[p].read, inflight[p].id)) =>
      /\ Cardinality({q \in Deleters(p) : inflight[q].resp.status = 204}) = 1
      /\ \A q \in Deleters(p) : inflight[q].resp.status \in {204, 404}

\* a reachable state of C26: two DELETE requests on one id are answered,
\* the first removed the task, the second found none
C26_Witness ==
  \E p, q \in Clients :
    /\ p # q /\ q \in Deleters(p)
    /\ Answered(p, "DELETE /tasks/:id") /\ Holds(inflight[p].read, inflight[p].id)
    /\ inflight[p].resp.status = 204
    /\ inflight[q].resp = TaskNotFound

\* C27: a 200 response of GET /tasks returns at most pagination.total
\* tasks, and total is the number of matching rows of the table its page
\* was read from, whatever creates and deletes ran during the request
C27_ListConsistent ==
  \A c \in Clients :
    (Answered(c, "GET /tasks") /\ inflight[c].resp.status = 200) =>
      /\ Len(inflight[c].resp.tasks) <= inflight[c].resp.pagination.total.n
      /\ inflight[c].resp.pagination.total = Num(Cardinality(inflight[c].read))

(***************************************************************************)
(* Properties of the list read page by page.                               *)
(***************************************************************************)
\* C28: pages 1..pagination.pages of GET /tasks, same limit and filters, no
\* write in between, return every matching task exactly once: no task on
\* two pages, no matching task on none, also for tasks of one creation time
C28_EveryTaskOnce ==
  WalkDone =>
    /\ \A i, j \in 1..Len(walk.rows) : i # j => walk.rows[i].id # walk.rows[j].id
    /\ {walk.rows[i].id : i \in 1..Len(walk.rows)} = {r.id : r \in {t \in tasks : Where(query(walk.q), t)}}

(***************************************************************************)
(* Properties of scripts/deploy.sh.                                        *)
(***************************************************************************)
\* the run of deploy.sh has ended with this status
Ended(status) == deploy.pc = "exit" /\ deploy.status = status

\* C23: a run of deploy.sh that fails after the new containers were started
\* (in the readiness wait, the health check or the smoke tests) has executed
\* rollback before it exits
C23_RollbackOnFailure ==
  (Ended(1) /\ "wait_for_deployment" \in deploy.ran) => "rollback" \in deploy.ran

\* C29: after deploy.sh <environment> <tag> has ended with success the
\* environment runs the image of that tag, whatever was deployed before
C29_RunsTag ==
  Ended(0) => deploy.image[deploy.environment] = deploy.tag

\* C30: a production run that found an instance of todo-api-production
\* running has had at least one running at every moment since
\* deploy_application began
C30_BlueGreen ==
  (/\ deploy.environment = "production"
   /\ "deploy_application" \in deploy.ran
   /\ deploy.up >= 1) => deploy.low >= 1

====
